---- MODULE Spec2Model ----
(***************************************************************************)
(* A model of the gateway core: the proxy's router hot-swap (Update,       *)
(* ServeHTTP, SyncClose), the per-endpoint request handler (attempt loop,  *)
(* writeError, body copy) and the service watcher (Add, update loop,       *)
(* doCallback, nodeApplier.Callback).                                       *)
(***************************************************************************)
EXTENDS Integers, Sequences, FiniteSets, TLC

\* ---------------------------------------------------------------- bounds
\* Number of Update calls that are started in one behaviour.
MaxUpdates ==
    2

\* Number of inbound requests that may be inside Proxy.ServeHTTP at once.
MaxRequests ==
    1

\* The largest retry.attempts an endpoint is configured with.
MaxAttempts ==
    3

\* Number of nodeAppliers (clients of discovery endpoints) that subscribe.
MaxSubs ==
    2

\* Number of lists the discovery service produces for a watcher.
MaxEmit ==
    3

\* Length of the node list given to the retry-exclusion filter.
MaxNodes ==
    3

\* Length of RequestOptions.Backends, the addresses already tried.
MaxTried ==
    2

\* Length of a request body given to the transcoder.
MaxBody ==
    2

\* Length of a path given to cleanPath and to stripPrefix.
MaxPath ==
    5

\* Length of the prefix given to stripPrefix.
MaxPrefix ==
    2

\* Length of an endpoint's and of the global middleware list.
MaxMiddlewares ==
    2

\* Number of closers of the router that SyncClose closes.
MaxClosers ==
    3

\* Number of requests inside that router when SyncClose starts.
MaxPending ==
    2

\* Number of endpoint keys the appliers map can hold.
MaxKeys ==
    2

\* Number of backends of an endpoint.
MaxBackends ==
    2

\* Number of instances in a list given to Callback.
MaxInstances ==
    2

VARIABLES
    router,       \* Proxy.router: the id of the installed router (atomic.Value)
    routers,      \* every muxRouter ever created, by id
    nextRouter,   \* the id the next mux.NewRouter of an Update gets
    upd,          \* the state of each goroutine that calls Proxy.Update
    swapSeq,      \* number of completed router swaps (history)
    req,          \* the state of each goroutine inside Proxy.ServeHTTP
    h,            \* one request inside the handler that buildEndpoint returns
    retryFeature, \* the gw:Retry feature flag
    ws,           \* serviceWatcher.watcherStatus, with the update loop of each key
    sub,          \* the nodeAppliers: subscription, cancel flag, picker's node set
    emitted,      \* the lists the discovery service has produced for each watcher
    taken,        \* how many of them watcher.Next() has returned
    wlock,        \* the applier whose Add holds serviceWatcher.lock, or 0
    filt,         \* a call of the retry-exclusion filter of NewRequestOptions
    tc,           \* a request and its attempts in the transcoder middleware
    pth,          \* a call of cleanPath or of stripPrefix
    mw,           \* an endpoint's middleware pipeline and a request going through it
    sc,           \* SyncClose of one superseded router, and the requests inside it
    rp,           \* the appliers map of the service watcher and its cleanup task
    na            \* one nodeApplier: its backends, its selector and a request

proxyVars ==
    <<router, routers, nextRouter, upd, swapSeq, req>>

handlerVars ==
    <<h, retryFeature>>

watchVars ==
    <<ws, sub, emitted, taken, wlock>>

\* The calls of the functions that are checked on their own.
pureVars ==
    <<filt, tc, pth, mw, sc, rp, na>>

vars ==
    <<router, routers, nextRouter, upd, swapSeq, req, h, retryFeature,
      ws, sub, emitted, taken, wlock, filt, tc, pth, mw, sc, rp, na>>

\* ------------------------------------------------------------ proxy: data
\* The goroutines that call Update; a call takes the first idle one.
Updaters ==
    1..2

\* The goroutines that serve requests; a request takes the first idle one.
Requests ==
    1..MaxRequests

RouterIds ==
    0..MaxUpdates

Paths ==
    {"/a", "/b"}

\* What the build of an endpoint runs into: nothing, an error of the client
\* factory, an error after the client exists (middleware or retry strategy), an
\* error of router.Handle.
Faults ==
    {"ok", "client", "build", "handle"}

Endpoint(p, f) ==
    [path |-> p, fault |-> f]

\* The configs handed to Update: /a alone, /b alone, and /a followed by /b, whose
\* build or registration may fail after the closer of /a has been collected. Update
\* returns at the first endpoint that fails, so only the last one carries a fault.
Configs ==
    {<<Endpoint("/a", "ok")>>, <<Endpoint("/b", "ok")>>}
    \cup {<<Endpoint("/a", "ok"), Endpoint("/b", f)>> : f \in Faults}

ConfigPaths(c) ==
    {c[i].path : i \in 1..Len(c)}

\* mux.NewRouter: no endpoint route, no closer, no pending request. closers[i] counts
\* the Close() calls on the closer that the build of endpoint i returned, and
\* syncClose the calls of SyncClose on the router.
NewRouter(c, st) ==
    [cfg |-> c, routes |-> {}, closers |-> <<>>, allCloser |-> <<>>, wg |-> 0,
     status |-> st, installSeq |-> 0, syncClose |-> 0]

IdleUpdate ==
    [pc |-> "idle", idx |-> 0, rid |-> 0]

NewRequest ==
    [pc |-> "new", path |-> "/a", enterSeq |-> 0, router |-> 0, result |-> <<"none">>]

InitProxy ==
    /\ router = 0
    /\ routers = [r \in RouterIds |-> IF r = 0 THEN NewRouter(<<>>, "installed") ELSE NewRouter(<<>>, "unused")]
    /\ nextRouter = 1
    /\ upd = [u \in Updaters |-> IdleUpdate]
    /\ swapSeq = 0
    /\ req = [q \in Requests |-> NewRequest]

\* ------------------------------------------------------- proxy: operations
closeOnErrorAlways(cs, c, err) ==
    [cs EXCEPT ![c] = @ + 1]

\* closeOnError: Close() the closer when the function returns an error.
closeOnError(cs, c, err) ==
    IF err = "nil" THEN cs ELSE [cs EXCEPT ![c] = @ + 1]

RECURSIVE runDefers(_, _, _)
\* The deferred closeOnError calls of Update, run last-registered first.
runDefers(cs, ds, err) ==
    IF ds = <<>> THEN cs
    ELSE runDefers(closeOnError(cs, ds[Len(ds)], err), SubSeq(ds, 1, Len(ds) - 1), err)

RECURSIVE closeAll(_, _)
\* The loop of SyncClose over allCloser.
closeAll(cs, ds) ==
    IF ds = <<>> THEN cs
    ELSE closeAll([cs EXCEPT ![Head(ds)] = @ + 1], Tail(ds))

\* The closers Update has deferred closeOnError for: one per endpoint whose
\* buildEndpoint returned without an error.
Deferred(r) ==
    [i \in 1..Len(routers[r].closers) |-> i]

\* The endpoint Update is building.
CurEndpoint(u) ==
    routers[upd[u].rid].cfg[upd[u].idx]

InLoop(u) ==
    upd[u].pc = "build" /\ upd[u].idx <= Len(routers[upd[u].rid].cfg)

\* Update, line 554: a new router for the config.
UpdateStart(u, c) ==
    /\ upd[u].pc = "idle"
    /\ \A v \in Updaters : v < u => upd[v].pc # "idle"
    /\ nextRouter <= MaxUpdates
    /\ routers' = [routers EXCEPT ![nextRouter] = NewRouter(c, "building")]
    /\ upd' = [upd EXCEPT ![u] = [IdleUpdate EXCEPT !.pc = "build", !.idx = 1, !.rid = nextRouter]]
    /\ nextRouter' = nextRouter + 1
    /\ UNCHANGED <<router, swapSeq, req, handlerVars, watchVars, pureVars>>

\* Update returns err: the deferred closeOnError calls run, the router is dropped.
ReturnError(u, cs) ==
    /\ routers' = [routers EXCEPT ![upd[u].rid].closers = runDefers(cs, Deferred(upd[u].rid), "err"),
                                  ![upd[u].rid].status = "failed",
                                  ![upd[u].rid].cfg = <<>>, ![upd[u].rid].routes = {},
                                  ![upd[u].rid].allCloser = <<>>]
    /\ upd' = [upd EXCEPT ![u] = IdleUpdate]
    /\ UNCHANGED <<router, nextRouter, swapSeq, req, handlerVars, watchVars, pureVars>>

\* buildEndpoint fails before a client exists (clientFactory): it has no closer.
BuildClientError(u) ==
    /\ InLoop(u)
    /\ CurEndpoint(u).fault = "client"
    /\ ReturnError(u, routers[upd[u].rid].closers)

\* buildEndpoint fails after the client was made: its own deferred closeOnError
\* closes the client; Update has not deferred anything for it.
BuildLateError(u) ==
    /\ InLoop(u)
    /\ CurEndpoint(u).fault = "build"
    /\ LET r == upd[u].rid
           own == closeOnError(Append(routers[r].closers, 0), Len(routers[r].closers) + 1, "err")
       IN  /\ routers' = [routers EXCEPT
                             ![r].closers = SubSeq(runDefers(own, Deferred(r), "err"), 1, Len(own)),
                             ![r].status = "failed", ![r].cfg = <<>>, ![r].routes = {},
                             ![r].allCloser = <<>>]
           /\ upd' = [upd EXCEPT ![u] = IdleUpdate]
           /\ UNCHANGED <<router, nextRouter, swapSeq, req, handlerVars, watchVars, pureVars>>

\* buildEndpoint succeeds and Update defers closeOnError(closer, &retError);
\* router.Handle returns the route's error: the router does not keep the closer.
HandleError(u) ==
    /\ InLoop(u)
    /\ CurEndpoint(u).fault = "handle"
    /\ LET r == upd[u].rid
           own == closeOnError(Append(routers[r].closers, 0), Len(routers[r].closers) + 1, "nil")
       IN  /\ routers' = [routers EXCEPT
                             ![r].closers = runDefers(own, [i \in 1..Len(own) |-> i], "err"),
                             ![r].status = "failed", ![r].cfg = <<>>, ![r].routes = {},
                             ![r].allCloser = <<>>]
           /\ upd' = [upd EXCEPT ![u] = IdleUpdate]
           /\ UNCHANGED <<router, nextRouter, swapSeq, req, handlerVars, watchVars, pureVars>>

\* buildEndpoint succeeds, Update defers closeOnError(closer, &retError), and
\* router.Handle registers the route and appends the closer to allCloser.
HandleOk(u) ==
    /\ InLoop(u)
    /\ CurEndpoint(u).fault = "ok"
    /\ LET r == upd[u].rid
           own == closeOnError(Append(routers[r].closers, 0), Len(routers[r].closers) + 1, "nil")
       IN  routers' = [routers EXCEPT ![r].closers = own,
                                      ![r].routes = @ \cup {CurEndpoint(u).path},
                                      ![r].allCloser = Append(@, Len(own))]
    /\ upd' = [upd EXCEPT ![u].idx = @ + 1]
    /\ UNCHANGED <<router, nextRouter, swapSeq, req, handlerVars, watchVars, pureVars>>

SwapReadyEarly(u) ==
    upd[u].pc = "build"

SwapReadyOffByOne(u) ==
    upd[u].pc = "build" /\ upd[u].idx >= Len(routers[upd[u].rid].cfg)

\* The loop over c.Endpoints has ended without an error.
SwapReady(u) ==
    upd[u].pc = "build" /\ upd[u].idx > Len(routers[upd[u].rid].cfg)

SwapStoreOld(rid) ==
    router

\* What p.router.Swap stores: the router Update has built.
SwapStore(rid) ==
    rid

UpdateSwapNoClose(u) ==
    /\ SwapReady(u)
    /\ router' = SwapStore(upd[u].rid)
    /\ swapSeq' = swapSeq + 1
    /\ routers' = [r \in RouterIds |->
                     LET x == IF r = upd[u].rid
                                  THEN [routers[r] EXCEPT
                                          !.closers = runDefers(@, Deferred(r), "nil")]
                              ELSE routers[r]
                     IN  IF r = router' /\ r # router
                             THEN [x EXCEPT !.status = "installed", !.installSeq = swapSeq + 1]
                         ELSE x]
    /\ upd' = [upd EXCEPT ![u] = IdleUpdate]
    /\ UNCHANGED <<nextRouter, req, handlerVars, watchVars, pureVars>>

\* old := p.router.Swap(router); tryCloseRouter(old) starts the goroutine that
\* runs old.SyncClose; Update returns nil and its deferred closeOnError calls run.
UpdateSwap(u) ==
    /\ SwapReady(u)
    /\ router' = SwapStore(upd[u].rid)
    /\ swapSeq' = swapSeq + 1
    /\ routers' = [r \in RouterIds |->
                     LET x == IF r = upd[u].rid
                                  THEN [routers[r] EXCEPT
                                          !.closers = runDefers(@, Deferred(r), "nil")]
                              ELSE routers[r]
                     IN  IF r = router' /\ r # router
                             THEN [x EXCEPT !.status = "installed", !.installSeq = swapSeq + 1]
                         ELSE IF r = router /\ r # router'
                             THEN [x EXCEPT !.status = "superseded", !.syncClose = @ + 1]
                         ELSE x]
    /\ upd' = [upd EXCEPT ![u] = IdleUpdate]
    /\ UNCHANGED <<nextRouter, req, handlerVars, watchVars, pureVars>>

\* SyncClose, waitTimeout: every pending request of the router has completed.
SyncCloseDrained(r) ==
    /\ routers[r].status = "superseded"
    /\ routers[r].wg = 0
    /\ routers' = [routers EXCEPT ![r].status = "closing"]
    /\ UNCHANGED <<router, nextRouter, upd, swapSeq, req, handlerVars, watchVars, pureVars>>

\* SyncClose, waitTimeout: the 120 s deadline passes with requests pending.
SyncCloseTimeout(r) ==
    /\ routers[r].status = "superseded"
    /\ routers[r].wg > 0
    /\ routers' = [routers EXCEPT ![r].status = "closing"]
    /\ UNCHANGED <<router, nextRouter, upd, swapSeq, req, handlerVars, watchVars, pureVars>>

\* SyncClose: Close() on every closer of the router.
SyncCloseClosers(r) ==
    /\ routers[r].status = "closing"
    /\ routers' = [routers EXCEPT ![r].status = "closed",
                                  ![r].closers = closeAll(@, routers[r].allCloser)]
    /\ UNCHANGED <<router, nextRouter, upd, swapSeq, req, handlerVars, watchVars, pureVars>>

\* A request enters Proxy.ServeHTTP: p.router.Load().
ReqLoad(q, p) ==
    /\ req[q].pc = "new"
    /\ \A v \in Requests : v < q => req[v].pc # "new"
    /\ req' = [req EXCEPT ![q] = [NewRequest EXCEPT !.pc = "loaded", !.path = p,
                                                    !.enterSeq = swapSeq, !.router = router]]
    /\ UNCHANGED <<router, routers, nextRouter, upd, swapSeq, handlerVars, watchVars, pureVars>>

\* The route a router resolves a path to: the handler registered for it, or the
\* notFoundHandler.
Resolve(r, p) ==
    IF p \in routers[r].routes THEN <<"handler", r, p>> ELSE <<"404">>

\* muxRouter.ServeHTTP: wg.Add(1), then the matched handler runs.
ReqServe(q) ==
    /\ req[q].pc = "loaded"
    /\ routers' = [routers EXCEPT ![req[q].router].wg = @ + 1]
    /\ req' = [req EXCEPT ![q].pc = "serving", ![q].result = Resolve(req[q].router, req[q].path)]
    /\ UNCHANGED <<router, nextRouter, upd, swapSeq, handlerVars, watchVars, pureVars>>

\* The handler returns: the deferred wg.Done().
ReqDone(q) ==
    /\ req[q].pc = "serving"
    /\ routers' = [routers EXCEPT ![req[q].router].wg = @ - 1]
    /\ req' = [req EXCEPT ![q] = NewRequest]
    /\ UNCHANGED <<router, nextRouter, upd, swapSeq, handlerVars, watchVars, pureVars>>

\* ------------------------------------------------- handler: retry strategy
AttemptIdx ==
    0..MaxAttempts

Protocols ==
    {"HTTP", "GRPC"}

\* Statuses the backend answers with.
BackendStatuses ==
    {200, 503}

\* config.Endpoint as the handler reads it: Retry may be nil; Attempts is the
\* configured number; the retry conditions are the statuses to retry on.
RetryEndpoints ==
    {[hasRetry |-> FALSE, attempts |-> 0, conditions |-> {}, protocol |-> p] : p \in Protocols}
        \cup [hasRetry : {TRUE}, attempts : 0..MaxAttempts, conditions : {{}, {503}},
              protocol : Protocols]

calcAttemptsAsConfigured(e) ==
    IF ~e.hasRetry THEN 1 ELSE e.attempts

calcAttemptsAsRetries(e) ==
    IF ~e.hasRetry THEN 1 ELSE e.attempts + 1

\* calcAttempts: 1 when Retry is nil or Attempts is 0.
calcAttempts(e) ==
    IF ~e.hasRetry THEN 1
    ELSE IF e.attempts = 0 THEN 1
    ELSE e.attempts

\* judgeRetryRequired: some retry condition matches the response.
judgeRetryRequired(conditions, resp) ==
    resp[1] \in conditions

\* status.ToGRPCCode as writeError calls it.
ToGRPCCode(statusCode) ==
    CASE statusCode = 200 -> 0
      [] statusCode = 400 -> 3
      [] statusCode = 401 -> 16
      [] statusCode = 403 -> 7
      [] statusCode = 404 -> 5
      [] statusCode = 409 -> 10
      [] statusCode = 429 -> 8
      [] statusCode = 499 -> 1
      [] statusCode = 500 -> 13
      [] statusCode = 501 -> 12
      [] statusCode = 503 -> 14
      [] statusCode = 504 -> 4
      [] OTHER -> 2

\* The errors the handler can hold in err.
Errors ==
    {"context canceled", "context deadline exceeded", "client disconnected",
     "unexpected EOF", "no available node", "connection refused", "middleware failed"}

errorStatusNoDeadline(err) ==
    IF err \in {"context canceled", "client disconnected"} THEN 499 ELSE 502

\* writeError, the switch: the status code of an error.
errorStatus(err) ==
    IF err \in {"context canceled", "client disconnected"} THEN 499
    ELSE IF err = "context deadline exceeded" THEN 504
    ELSE 502

writeErrorCountsWritten(err, protocol) ==
    LET statusCode == errorStatus(err)
    IN  IF protocol = "GRPC"
            THEN [from |-> "error", status |-> 200, counted |-> 200,
                  contentType |-> "application/grpc",
                  grpcStatus |-> ToGRPCCode(statusCode), grpcMessage |-> err]
        ELSE [from |-> "error", status |-> statusCode, counted |-> statusCode,
              contentType |-> "", grpcStatus |-> -1, grpcMessage |-> ""]

\* writeError: what is written to the client and counted in requests_total.
writeError(err, protocol) ==
    LET statusCode == errorStatus(err)
    IN  IF protocol = "GRPC"
            THEN [from |-> "error", status |-> 200, counted |-> statusCode,
                  contentType |-> "application/grpc",
                  grpcStatus |-> ToGRPCCode(statusCode), grpcMessage |-> err]
        ELSE [from |-> "error", status |-> statusCode, counted |-> statusCode,
              contentType |-> "", grpcStatus |-> -1, grpcMessage |-> ""]

NothingWritten ==
    [from |-> "none", status |-> 0, counted |-> 0, contentType |-> "", grpcStatus |-> -1,
     grpcMessage |-> ""]

\* The handler before a request: reqOpts as NewRequestOptions makes them
\* (DoneFunc a no-op, LastAttempt false), resp nil. requestsTotal lists the
\* status codes requestsTotalIncr was called with. bodies is the Body of the
\* response each attempt obtained from the upstream: none, open or closed.
IdleHandler ==
    [pc |-> "idle", ep |-> CHOOSE e \in RetryEndpoints : ~e.hasRetry /\ e.protocol = "HTTP",
     attempts |-> 1, i |-> 0, ctx |-> "live", err |-> "nil", resp |-> <<>>,
     lastAttempt |-> FALSE, doneFunc |-> -1,
     selected |-> {}, doneCalls |-> [a \in AttemptIdx |-> <<>>],
     dispatched |-> 0, doneAtTop |-> FALSE, offDispatch |-> FALSE, exit |-> "none",
     tries |-> <<>>, bodies |-> [a \in AttemptIdx |-> "none"],
     out |-> NothingWritten, requestsTotal |-> <<>>,
     breaker |-> [success |-> 0, failed |-> 0], retryState |-> [success |-> 0, failed |-> 0]]

InitHandler ==
    /\ h = IdleHandler
    /\ retryFeature = TRUE

markFailedAtFirst(x, i, err) ==
    [x EXCEPT !.retryState.failed = IF err = "context canceled" THEN @ ELSE @ + 1,
              !.breaker.failed = @ + 1]

markSuccessStatOnly(x, i) ==
    IF i > 0 THEN [x EXCEPT !.retryState.success = @ + 1] ELSE x

\* markSuccess: the retry metric and the breaker count retries only (i > 0).
markSuccess(x, i) ==
    IF i > 0 THEN [x EXCEPT !.retryState.success = @ + 1, !.breaker.success = @ + 1]
    ELSE x

\* markFailed: as markSuccess, and context.Canceled is left out of the metric.
markFailed(x, i, err) ==
    IF i > 0
        THEN [x EXCEPT !.retryState.failed = IF err = "context canceled" THEN @ ELSE @ + 1,
                       !.breaker.failed = @ + 1]
    ELSE x

\* The done closure of client.RoundTrip for attempt a is called with d.
callDone(x, a, d) ==
    IF a < 0 THEN x ELSE [x EXCEPT !.doneCalls[a] = Append(@, d)]

\* ------------------------------------------------------ handler: operations
ctxErrNever(c) ==
    "nil"

\* ctx.Err() of the total-timeout context.
ctxErr(c) ==
    IF c = "live" THEN "nil"
    ELSE IF c = "deadline" THEN "context deadline exceeded"
    ELSE "context canceled"

\* The condition of the attempt loop.
LoopCond(i, attempts) ==
    i < attempts

\* The first attempt is not a retry; a retry needs retryFeature.Enabled().
RetryEnabled(i) ==
    i = 0 \/ retryFeature

\* reqOpts.LastAttempt after the check of line 413.
LastAttempt(x) ==
    x.lastAttempt \/ (x.i + 1) >= x.attempts

AtLoopTop ==
    h.pc = "loop" /\ LoopCond(h.i, h.attempts)

\* The loop has ended, by a break or by its condition.
LoopEnded ==
    h.pc = "after" \/ (h.pc = "loop" /\ ~LoopCond(h.i, h.attempts))

\* A request enters the handler of an endpoint: the retry strategy of the
\* endpoint, fresh request options, the total-timeout context.
HandlerEnter(e) ==
    /\ h.pc = "idle"
    /\ h' = [IdleHandler EXCEPT !.pc = "body", !.ep = e, !.attempts = calcAttempts(e)]
    /\ UNCHANGED <<retryFeature, proxyVars, watchVars, pureVars>>

\* io.ReadAll(req.Body) fails: writeError and return.
BodyReadError(e) ==
    /\ h.pc = "body"
    /\ h' = [h EXCEPT !.pc = "done", !.err = e, !.out = writeError(e, h.ep.protocol),
                      !.requestsTotal = Append(@, writeError(e, h.ep.protocol).counted)]
    /\ UNCHANGED <<retryFeature, proxyVars, watchVars, pureVars>>

BodyReadOk ==
    /\ h.pc = "body"
    /\ h' = [h EXCEPT !.pc = "loop"]
    /\ UNCHANGED <<retryFeature, proxyVars, watchVars, pureVars>>

\* i > 0 and the retry feature is disabled: break.
BreakFeatureOff ==
    /\ AtLoopTop
    /\ ~RetryEnabled(h.i)
    /\ h' = [h EXCEPT !.pc = "after", !.exit = "feature", !.doneAtTop = h.ctx # "live"]
    /\ UNCHANGED <<retryFeature, proxyVars, watchVars, pureVars>>

BreakBreakerOpenSetsErr ==
    /\ AtLoopTop
    /\ h.i > 0
    /\ RetryEnabled(h.i)
    /\ h' = [markFailed(h, h.i, "circuit breaker open") EXCEPT
                !.pc = "after", !.exit = "breaker", !.doneAtTop = h.ctx # "live",
                !.err = "circuit breaker open"]
    /\ UNCHANGED <<retryFeature, proxyVars, watchVars, pureVars>>

\* i > 0 and retryBreaker.Allow() refuses: markFailed and break; the error is
\* held in a variable of the if statement, not in the handler's err.
BreakBreakerOpen ==
    /\ AtLoopTop
    /\ h.i > 0
    /\ RetryEnabled(h.i)
    /\ h' = [markFailed(h, h.i, "circuit breaker open") EXCEPT
                !.pc = "after", !.exit = "breaker", !.doneAtTop = h.ctx # "live"]
    /\ UNCHANGED <<retryFeature, proxyVars, watchVars, pureVars>>

\* err = ctx.Err() is not nil: markFailed and break.
BreakCtxDone ==
    /\ AtLoopTop
    /\ RetryEnabled(h.i)
    /\ ctxErr(h.ctx) # "nil"
    /\ h' = [markFailed(h, h.i, ctxErr(h.ctx)) EXCEPT
                !.pc = "after", !.exit = "ctx", !.err = ctxErr(h.ctx), !.doneAtTop = TRUE,
                !.lastAttempt = LastAttempt(h)]
    /\ UNCHANGED <<retryFeature, proxyVars, watchVars, pureVars>>

\* The attempt is dispatched: tripper.RoundTrip(req.Clone(tryCtx)).
Dispatch ==
    /\ AtLoopTop
    /\ RetryEnabled(h.i)
    /\ ctxErr(h.ctx) = "nil"
    /\ h' = [h EXCEPT !.pc = "inflight", !.err = "nil", !.lastAttempt = LastAttempt(h),
                      !.dispatched = @ + 1,
                      !.doneAtTop = h.ctx # "live",
                      !.offDispatch = @ \/ (h.i > 0 /\ ~retryFeature)]
    /\ UNCHANGED <<retryFeature, proxyVars, watchVars, pureVars>>

\* What an attempt ended with: the error of RoundTrip, or the status of its
\* response.
Outcome(e, st) ==
    [err |-> e, status |-> st]

AttemptFailedStops(x, e) ==
    [markFailed(x, x.i, e) EXCEPT !.pc = "after", !.resp = <<>>, !.err = e,
                                  !.tries = Append(@, Outcome(e, 0))]

AttemptFailedBreaks(x, e) ==
    [markFailed(x, x.i, e) EXCEPT !.pc = "after", !.exit = "error", !.resp = <<>>, !.err = e,
                                  !.tries = Append(@, Outcome(e, 0))]

\* RoundTrip returns an error: resp is nil, markFailed, continue.
AttemptFailed(x, e) ==
    [markFailed(x, x.i, e) EXCEPT !.pc = "loop", !.resp = <<>>, !.err = e, !.i = @ + 1,
                                  !.tries = Append(@, Outcome(e, 0))]

\* client.RoundTrip: selector.Select fails, no node is selected.
SelectError ==
    /\ h.pc = "inflight"
    /\ h' = AttemptFailed(h, "no available node")
    /\ UNCHANGED <<retryFeature, proxyVars, watchVars, pureVars>>

\* client.RoundTrip: a node is selected and client.Do fails: done(ctx, Err).
TransportError(e) ==
    /\ h.pc = "inflight"
    /\ e = "context canceled" => h.ctx = "canceled"
    /\ h' = AttemptFailed(callDone([h EXCEPT !.selected = @ \cup {h.i}], h.i, "err"), e)
    /\ UNCHANGED <<retryFeature, proxyVars, watchVars, pureVars>>

\* client.RoundTrip returns a response and stores done in reqOpt.DoneFunc; a
\* middleware above it then returns an error in place of the response.
MiddlewareError ==
    /\ h.pc = "inflight"
    /\ h' = AttemptFailed([h EXCEPT !.selected = @ \cup {h.i}, !.doneFunc = h.i,
                                    !.bodies[h.i] = "open"],
                          "middleware failed")
    /\ UNCHANGED <<retryFeature, proxyVars, watchVars, pureVars>>

\* RoundTrip returns a response that no retry condition matches: markSuccess, break.
ResponseFinal(st) ==
    /\ h.pc = "inflight"
    /\ ~judgeRetryRequired(h.ep.conditions, <<st, h.i>>)
    /\ h' = [markSuccess(h, h.i) EXCEPT
                !.selected = @ \cup {h.i}, !.doneFunc = h.i, !.resp = <<st, h.i>>,
                !.lastAttempt = TRUE, !.pc = "after", !.exit = "final",
                !.tries = Append(@, Outcome("nil", st)), !.bodies[h.i] = "open"]
    /\ UNCHANGED <<retryFeature, proxyVars, watchVars, pureVars>>

\* RoundTrip returns a response that a retry condition matches: markFailed and
\* the next iteration; resp and reqOpt.DoneFunc stay as this attempt set them.
ResponseRetry(st) ==
    /\ h.pc = "inflight"
    /\ judgeRetryRequired(h.ep.conditions, <<st, h.i>>)
    /\ h' = [markFailed(h, h.i, "assertion failed") EXCEPT
                !.selected = @ \cup {h.i}, !.doneFunc = h.i, !.resp = <<st, h.i>>,
                !.pc = "loop", !.i = @ + 1, !.tries = Append(@, Outcome("nil", st)),
                !.bodies[h.i] = "open"]
    /\ UNCHANGED <<retryFeature, proxyVars, watchVars, pureVars>>

\* After the loop, err is not nil: writeError and return.
WriteError ==
    /\ LoopEnded
    /\ h.err # "nil"
    /\ h' = [h EXCEPT !.pc = "done", !.out = writeError(h.err, h.ep.protocol),
                      !.requestsTotal = Append(@, writeError(h.err, h.ep.protocol).counted)]
    /\ UNCHANGED <<retryFeature, proxyVars, watchVars, pureVars>>

\* The response resp is written to the client.
BackendResponse(resp) ==
    [NothingWritten EXCEPT !.from = "backend", !.status = resp[1], !.counted = resp[1]]

\* After the loop, err is nil: the headers and status of resp are written and
\* doCopyBody copies the body: reqOpts.DoneFunc(ctx, ReplyMD), and the deferred
\* resp.Body.Close().
CopyBodyOk ==
    /\ LoopEnded
    /\ h.err = "nil"
    /\ h.resp # <<>>
    /\ h' = [callDone(h, h.doneFunc, "md") EXCEPT !.pc = "done", !.out = BackendResponse(h.resp),
                                                  !.bodies[h.resp[2]] = "closed",
                                                  !.requestsTotal = Append(@, h.resp[1])]
    /\ UNCHANGED <<retryFeature, proxyVars, watchVars, pureVars>>

\* As CopyBodyOk, but io.Copy fails: reqOpts.DoneFunc(ctx, Err).
CopyBodyError ==
    /\ LoopEnded
    /\ h.err = "nil"
    /\ h.resp # <<>>
    /\ h' = [callDone(h, h.doneFunc, "err") EXCEPT !.pc = "done", !.out = BackendResponse(h.resp),
                                                   !.bodies[h.resp[2]] = "closed",
                                                   !.requestsTotal = Append(@, h.resp[1])]
    /\ UNCHANGED <<retryFeature, proxyVars, watchVars, pureVars>>

InHandler ==
    h.pc \in {"body", "loop", "inflight"}

\* The deadline of context.WithTimeout(ctx, retryStrategy.timeout) passes.
CtxExpire ==
    /\ InHandler
    /\ h.ctx = "live"
    /\ h' = [h EXCEPT !.ctx = "deadline"]
    /\ UNCHANGED <<retryFeature, proxyVars, watchVars, pureVars>>

\* The inbound request's context is cancelled.
CtxCancel ==
    /\ InHandler
    /\ h.ctx = "live"
    /\ h' = [h EXCEPT !.ctx = "canceled"]
    /\ UNCHANGED <<retryFeature, proxyVars, watchVars, pureVars>>

\* The gw:Retry feature flag is switched.
SetRetryFeature(b) ==
    /\ h.pc # "done"
    /\ retryFeature # b
    /\ retryFeature' = b
    /\ UNCHANGED <<h, proxyVars, watchVars, pureVars>>

\* --------------------------------------------------- service watcher: state
Subs ==
    1..MaxSubs

\* The endpoint keys of the discovery targets.
Keys ==
    {"svc"}

\* Service instances; n0 has no endpoint of the protocol's scheme.
Instances ==
    {"n0", "n1", "n2", "n3"}

\* The lists the discovery watcher returns.
InstanceLists ==
    {{}, {"n1", "n2"}, {"n2", "n3", "n0"}}

\* watcherStatus of a key that has no watcher, and the update loop before its
\* goroutine is started.
NoWatcher ==
    [exists |-> FALSE, initialized |-> FALSE, spawned |-> FALSE, owner |-> 0,
     selectedInstances |-> {}, cacheSeq |-> 0,
     loop |-> [pc |-> "next", services |-> {}, seq |-> 0]]

\* A nodeApplier that apply has not subscribed yet: the picker has no nodes.
NewApplier ==
    [pc |-> "new", key |-> CHOOSE k \in Keys : TRUE, registered |-> FALSE,
     viaWatcher |-> FALSE, canceled |-> FALSE, nodes |-> {}, received |-> <<>>,
     watcherExisted |-> FALSE]

InitWatch ==
    /\ ws = [k \in Keys |-> NoWatcher]
    /\ sub = [s \in Subs |-> NewApplier]
    /\ emitted = [k \in Keys |-> <<>>]
    /\ taken = [k \in Keys |-> 0]
    /\ wlock = 0

\* parseEndpoint finds an endpoint of the protocol's scheme.
HasEndpoint(n) ==
    n # "n0"

\* nodeApplier.Callback: the nodes built from a list, instances without a
\* matching endpoint skipped.
NodesOf(services) ==
    {n \in services : HasEndpoint(n)}

pickerApplyUnion(old, nodes) ==
    old \cup nodes

\* picker.Apply(nodes): the selector's node set is replaced.
pickerApply(old, nodes) ==
    nodes

\* nodeApplier.Callback(services), services being the list numbered seq: a
\* cancelled applier returns ErrCancelWatch, an empty list changes nothing.
Callback(x, services, seq) ==
    LET y == [x EXCEPT !.received = Append(@, seq)]
    IN  IF x.canceled THEN y
        ELSE IF services = {} THEN y
        ELSE [y EXCEPT !.nodes = pickerApply(@, NodesOf(services))]

\* watcher.Next() has a list to return.
NextReady(k) ==
    taken[k] < Len(emitted[k])

\* The list watcher.Next() returns.
NextList(k) ==
    emitted[k][taken[k] + 1]

LoopSpawnedAtOpen(k) ==
    ws[k].exists

\* The goroutine of the update loop has been started.
LoopSpawned(k) ==
    ws[k].spawned

\* s.lock can be taken: Add holds the write lock for the whole call.
LockFree ==
    wlock = 0

\* The nodeApplier apply subscribes next.
NextApplier(s) ==
    /\ sub[s].pc = "new"
    /\ \A t \in Subs : t < s => sub[t].pc # "new"

\* ---------------------------------------------- service watcher: operations
\* The discovery service has a new list for the watcher of k.
Emit(k, l) ==
    /\ Len(emitted[k]) < MaxEmit
    /\ emitted' = [emitted EXCEPT ![k] = Append(@, l)]
    /\ UNCHANGED <<ws, sub, taken, wlock, proxyVars, handlerVars, pureVars>>

AddExistingNoCache(s, k) ==
    /\ NextApplier(s)
    /\ LockFree
    /\ ws[k].exists
    /\ ws[k].initialized
    /\ sub' = [sub EXCEPT ![s] = [@ EXCEPT !.pc = "live", !.key = k, !.registered = TRUE,
                                           !.viaWatcher = TRUE, !.watcherExisted = TRUE]]
    /\ UNCHANGED <<ws, emitted, taken, wlock, proxyVars, handlerVars, pureVars>>

\* Add, the key has a watcher: the cached list, when it is not empty, is given to
\* the applier, and the applier is registered; Add returns true.
AddExisting(s, k) ==
    /\ NextApplier(s)
    /\ LockFree
    /\ ws[k].exists
    /\ ws[k].initialized
    /\ LET x == [sub[s] EXCEPT !.pc = "live", !.key = k, !.registered = TRUE,
                               !.viaWatcher = TRUE, !.watcherExisted = TRUE]
       IN  sub' = [sub EXCEPT ![s] = IF ws[k].selectedInstances # {}
                                         THEN Callback(x, ws[k].selectedInstances, ws[k].cacheSeq)
                                     ELSE x]
    /\ UNCHANGED <<ws, emitted, taken, wlock, proxyVars, handlerVars, pureVars>>

\* Add, the key has no watcher and discovery.Watch fails: Add returns false, the
\* applier is registered all the same.
AddWatchError(s, k) ==
    /\ NextApplier(s)
    /\ LockFree
    /\ ~ws[k].exists
    /\ sub' = [sub EXCEPT ![s] = [@ EXCEPT !.pc = "live", !.key = k, !.registered = TRUE]]
    /\ UNCHANGED <<ws, emitted, taken, wlock, proxyVars, handlerVars, pureVars>>

\* Add, the key has no watcher: discovery.Watch opens one and it is stored in
\* watcherStatus; Add holds the write lock.
AddOpen(s, k) ==
    /\ NextApplier(s)
    /\ LockFree
    /\ ~ws[k].exists
    /\ ws' = [ws EXCEPT ![k] = [NoWatcher EXCEPT !.exists = TRUE, !.owner = s]]
    /\ sub' = [sub EXCEPT ![s] = [@ EXCEPT !.pc = "opening", !.key = k, !.viaWatcher = TRUE]]
    /\ wlock' = s
    /\ UNCHANGED <<emitted, taken, proxyVars, handlerVars, pureVars>>

\* Add, the initial watcher.Next() returns a list: it is cached and given to the
\* applier; initializedChan is closed, the update loop is started, the applier is
\* registered and the lock released.
AddInitial(s) ==
    /\ wlock = s
    /\ LET k == sub[s].key
       IN  /\ NextReady(k)
           /\ taken' = [taken EXCEPT ![k] = @ + 1]
           /\ ws' = [ws EXCEPT ![k].selectedInstances = NextList(k),
                               ![k].cacheSeq = taken[k] + 1,
                               ![k].initialized = TRUE, ![k].spawned = TRUE]
           /\ sub' = [sub EXCEPT ![s] = [Callback(@, NextList(k), taken[k] + 1) EXCEPT
                                            !.pc = "live", !.registered = TRUE]]
    /\ wlock' = 0
    /\ UNCHANGED <<emitted, proxyVars, handlerVars, pureVars>>

\* Add, the initial watcher.Next() returns an error: nothing is cached or given;
\* the update loop is started all the same.
AddInitialError(s) ==
    /\ wlock = s
    /\ ws' = [ws EXCEPT ![sub[s].key].initialized = TRUE, ![sub[s].key].spawned = TRUE]
    /\ sub' = [sub EXCEPT ![s] = [@ EXCEPT !.pc = "live", !.registered = TRUE]]
    /\ wlock' = 0
    /\ UNCHANGED <<emitted, taken, proxyVars, handlerVars, pureVars>>

\* nodeApplier.Cancel (client.Close): the applier is cancelled, and with it the
\* context its Add gave to discovery.Watch.
Cancel(s) ==
    /\ sub[s].pc = "live"
    /\ ~sub[s].canceled
    /\ sub' = [sub EXCEPT ![s].canceled = TRUE]
    /\ UNCHANGED <<ws, emitted, taken, wlock, proxyVars, handlerVars, pureVars>>

\* The update loop: watcher.Next() returns a list; an empty list is skipped.
LoopNext(k) ==
    /\ LoopSpawned(k)
    /\ ws[k].loop.pc = "next"
    /\ NextReady(k)
    /\ taken' = [taken EXCEPT ![k] = @ + 1]
    /\ ws' = [ws EXCEPT ![k].loop = IF NextList(k) = {} THEN @
                                    ELSE [pc |-> "cache", services |-> NextList(k),
                                          seq |-> taken[k] + 1]]
    /\ UNCHANGED <<sub, emitted, wlock, proxyVars, handlerVars, pureVars>>

\* The update loop: watcher.Next() returns context.Canceled (the context of the
\* watcher is the one of the applier that opened it): the loop ends.
LoopStop(k) ==
    /\ LoopSpawned(k)
    /\ ws[k].loop.pc = "next"
    /\ ws[k].owner \in Subs
    /\ sub[ws[k].owner].canceled
    /\ ws' = [ws EXCEPT ![k].loop.pc = "stopped"]
    /\ UNCHANGED <<sub, emitted, taken, wlock, proxyVars, handlerVars, pureVars>>

\* The update loop: setSelectedCache, under the write lock.
LoopCache(k) ==
    /\ ws[k].loop.pc = "cache"
    /\ LockFree
    /\ ws' = [ws EXCEPT ![k].selectedInstances = ws[k].loop.services,
                        ![k].cacheSeq = ws[k].loop.seq,
                        ![k].loop.pc = "callback"]
    /\ UNCHANGED <<sub, emitted, taken, wlock, proxyVars, handlerVars, pureVars>>

LoopCallbackLiveOnly(k) ==
    /\ ws[k].loop.pc = "callback"
    /\ LockFree
    /\ sub' = [s \in Subs |-> IF sub[s].registered /\ sub[s].key = k /\ ~sub[s].canceled
                                  THEN Callback(sub[s], ws[k].loop.services, ws[k].loop.seq)
                              ELSE sub[s]]
    /\ ws' = [ws EXCEPT ![k].loop = [pc |-> "next", services |-> {}, seq |-> 0]]
    /\ UNCHANGED <<emitted, taken, wlock, proxyVars, handlerVars, pureVars>>

\* The update loop: doCallback, under the read lock: Callback of every applier
\* registered for the key.
LoopCallback(k) ==
    /\ ws[k].loop.pc = "callback"
    /\ LockFree
    /\ sub' = [s \in Subs |-> IF sub[s].registered /\ sub[s].key = k
                                  THEN Callback(sub[s], ws[k].loop.services, ws[k].loop.seq)
                              ELSE sub[s]]
    /\ ws' = [ws EXCEPT ![k].loop = [pc |-> "next", services |-> {}, seq |-> 0]]
    /\ UNCHANGED <<emitted, taken, wlock, proxyVars, handlerVars, pureVars>>

\* ------------------------------------------------ retry-exclusion filter
\* Addresses of selector nodes.
Addresses ==
    {"a", "b", "c"}

RECURSIVE SeqsUpTo(_, _)
\* The sequences over S of length at most n.
SeqsUpTo(S, n) ==
    IF n = 0 THEN {<<>>}
    ELSE LET shorter == SeqsUpTo(S, n - 1)
         IN  shorter \cup {Append(q, x) : q \in {t \in shorter : Len(t) = n - 1}, x \in S}

\* No call of the filter.
NoFilterCall ==
    [pc |-> "none", nodes |-> <<>>, backends |-> <<>>, result |-> <<>>, array |-> <<>>]

RECURSIVE filterLoop(_, _, _, _)
\* The loop of the filter: newNodes := nodes[:0] shares the array of nodes, and
\* every node whose address is not selected is appended to it. arr is the
\* array, r the index the range reads next, w the length of newNodes.
filterLoop(arr, r, w, selected) ==
    IF r > Len(arr) THEN [array |-> arr, len |-> w]
    ELSE IF arr[r] \in selected THEN filterLoop(arr, r + 1, w, selected)
    ELSE filterLoop([arr EXCEPT ![w + 1] = arr[r]], r + 1, w + 1, selected)

\* The array of nodes after the filter has run.
filterArray(nodes, backends) ==
    IF Len(backends) = 0 THEN nodes
    ELSE filterLoop(nodes, 1, 0, {backends[i] : i \in 1..Len(backends)}).array

retryFilterNoFailOpen(nodes, backends) ==
    LET f == filterLoop(nodes, 1, 0, {backends[i] : i \in 1..Len(backends)})
    IN  SubSeq(f.array, 1, f.len)

\* The filter of NewRequestOptions: the nodes as they are when no backend was
\* tried or when every node was; else the nodes whose address was not tried.
retryFilter(nodes, backends) ==
    IF Len(backends) = 0 THEN nodes
    ELSE LET f == filterLoop(nodes, 1, 0, {backends[i] : i \in 1..Len(backends)})
         IN  IF f.len = 0 THEN nodes ELSE SubSeq(f.array, 1, f.len)

\* A call of the filter on some nodes, with some backends tried.
InitFilter ==
    \E nodes \in SeqsUpTo(Addresses, MaxNodes), backends \in SeqsUpTo(Addresses, MaxTried) :
        filt = [NoFilterCall EXCEPT !.pc = "call", !.nodes = nodes, !.backends = backends,
                                    !.array = nodes]

\* The selector applies the filter.
FilterApply ==
    /\ filt.pc = "call"
    /\ filt' = [filt EXCEPT !.pc = "returned",
                            !.result = retryFilter(filt.nodes, filt.backends),
                            !.array = filterArray(filt.nodes, filt.backends)]
    /\ UNCHANGED <<proxyVars, handlerVars, watchVars, tc, pth, mw, sc, rp, na>>

\* --------------------------------------------------- cleanPath, stripPrefix
\* Paths are sequences of characters.
Chars ==
    {"/", ".", "a"}

RECURSIVE cleanDropElement(_, _, _)
\* path.Clean, the ".." case after out.w--: w goes back while it is above dotdot
\* and the character at index w of the buffer is not a slash.
cleanDropElement(buf, w, dotdot) ==
    IF w > dotdot /\ buf[w + 1] # "/" THEN cleanDropElement(buf, w - 1, dotdot)
    ELSE SubSeq(buf, 1, w)

RECURSIVE cleanCopyElement(_, _, _)
\* path.Clean, the default case: the element that starts at r is copied to out.
cleanCopyElement(p, r, out) ==
    IF r <= Len(p) /\ p[r] # "/" THEN cleanCopyElement(p, r + 1, Append(out, p[r]))
    ELSE [r |-> r, out |-> out]

RECURSIVE cleanLoop(_, _, _, _, _)
\* path.Clean, the loop over the path: r is the next character to read, out the
\* buffer written so far, dotdot the length out cannot be cut below.
cleanLoop(p, r, out, dotdot, rooted) ==
    LET n == Len(p)
        at(i) == IF i <= n THEN p[i] ELSE ""
    IN  IF r > n THEN out
        ELSE IF p[r] = "/" THEN cleanLoop(p, r + 1, out, dotdot, rooted)
        ELSE IF p[r] = "." /\ (r = n \/ at(r + 1) = "/")
            THEN cleanLoop(p, r + 1, out, dotdot, rooted)
        ELSE IF p[r] = "." /\ at(r + 1) = "." /\ (r + 1 = n \/ at(r + 2) = "/")
            THEN IF Len(out) > dotdot
                     THEN cleanLoop(p, r + 2,
                                    cleanDropElement(out, Len(out) - 1, dotdot),
                                    dotdot, rooted)
                 ELSE IF ~rooted
                     THEN LET o == (IF Len(out) > 0 THEN Append(out, "/") ELSE out)
                                       \o <<".", ".">>
                          IN  cleanLoop(p, r + 2, o, Len(o), rooted)
                 ELSE cleanLoop(p, r + 2, out, dotdot, rooted)
        ELSE LET o == IF (rooted /\ Len(out) # 1) \/ (~rooted /\ Len(out) # 0)
                          THEN Append(out, "/") ELSE out
                 c == cleanCopyElement(p, r, o)
             IN  cleanLoop(p, c.r, c.out, dotdot, rooted)

\* path.Clean of the Go standard library.
Clean(p) ==
    IF p = <<>> THEN <<".">>
    ELSE LET rooted == p[1] = "/"
             out == IF rooted THEN cleanLoop(p, 2, <<"/">>, 1, TRUE)
                    ELSE cleanLoop(p, 1, <<>>, 0, FALSE)
         IN  IF out = <<>> THEN <<".">> ELSE out

cleanPathUnrooted(p) ==
    IF p = <<>> THEN <<"/">>
    ELSE LET np == Clean(p)
         IN  IF p[Len(p)] = "/" /\ np # <<"/">> THEN Append(np, "/") ELSE np

\* cleanPath of the router.
cleanPath(p) ==
    IF p = <<>> THEN <<"/">>
    ELSE LET q == IF p[1] # "/" THEN <<"/">> \o p ELSE p
             np == Clean(q)
         IN  IF q[Len(q)] = "/" /\ np # <<"/">> THEN Append(np, "/") ELSE np

\* strings.HasPrefix.
HasPrefix(s, prefix) ==
    Len(s) >= Len(prefix) /\ SubSeq(s, 1, Len(prefix)) = prefix

\* strings.TrimPrefix.
TrimPrefix(s, prefix) ==
    IF HasPrefix(s, prefix) THEN SubSeq(s, Len(prefix) + 1, Len(s)) ELSE s

\* path.Join("/", out) for a non-empty out: the elements joined by a slash, cleaned.
Join(a, b) ==
    Clean(a \o <<"/">> \o b)

stripPrefixNoJoin(origin, prefix) ==
    LET out == TrimPrefix(origin, prefix)
    IN  IF out = <<>> THEN <<"/">> ELSE out

\* stripPrefix of the rewrite middleware.
stripPrefix(origin, prefix) ==
    LET out == TrimPrefix(origin, prefix)
    IN  IF out = <<>> THEN <<"/">>
        ELSE IF out[1] # "/" THEN Join(<<"/">>, out)
        ELSE out

\* ------------------------------------------------------------- transcoder
\* Header values are sequences of characters.
AppSlash ==
    <<"a", "p", "p", "l", "i", "c", "a", "t", "i", "o", "n", "/">>

AppGrpc ==
    AppSlash \o <<"g", "r", "p", "c">>

\* The subtypes of the inbound Content-Type.
Subtypes ==
    {<<"j", "s", "o", "n">>,
     <<"p", "r", "o", "t", "o">>,
     <<"o", "c", "t", "e", "t", "-", "s", "t", "r", "e", "a", "m">>,
     <<"g", "r", "p", "c">>,
     <<"g", "r", "p", "c", "+", "p", "r", "o", "t", "o">>}

\* The inbound Content-Type values: application/<subtype>, text/plain, none.
ContentTypes ==
    {AppSlash \o subtype : subtype \in Subtypes}
        \cup {<<"t", "e", "x", "t", "/", "p", "l", "a", "i", "n">>, <<>>}

\* The bytes bodies are made of.
Bytes ==
    {0, 7, 255}

RECURSIVE TrimLeft(_, _)
\* strings.TrimLeft: the leading characters that occur in cutset are removed.
TrimLeft(s, cutset) ==
    IF s = <<>> THEN s
    ELSE IF \E i \in 1..Len(cutset) : cutset[i] = Head(s) THEN TrimLeft(Tail(s), cutset)
    ELSE s

\* binary.BigEndian.PutUint32 of uint32(n); the bodies here are shorter than
\* 2^32 bytes, for which uint32(n) is n.
PutUint32(n) ==
    <<(n \div 16777216) % 256, (n \div 65536) % 256, (n \div 256) % 256, n % 256>>

\* bb: a zero byte, the length of b in four bytes, b.
bb(b) ==
    <<0>> \o PutUint32(Len(b)) \o b

\* The request the transcoder passes to next.RoundTrip.
transcodeRequest(r, protocol) ==
    IF protocol # "GRPC" \/ HasPrefix(r.contentType, AppGrpc) THEN r
    ELSE [contentType |-> AppGrpc \o <<"+">> \o TrimLeft(r.contentType, AppSlash),
          body |-> bb(r.body), contentLength |-> Len(bb(r.body)), transcoded |-> TRUE,
          path |-> r.path]

inboundAfterUrlShared(r, sent) ==
    [r EXCEPT !.path = sent.path]

inboundAfterShared(r, sent) ==
    [r EXCEPT !.contentType = sent.contentType]

\* The inbound request after an attempt: the attempt worked on req.Clone(tryCtx),
\* whose header is a copy, and on a new reader of the body.
inboundAfter(r, sent) ==
    r

\* The values of the grpc-status header of upstream responses; "" is no header.
GrpcStatuses ==
    {"", "0", "5", "00", "x"}

\* strconv.ParseInt(grpcStatus, 10, 64): the number, or an error.
ParseInt(v) ==
    CASE v = "0" -> [ok |-> TRUE, n |-> 0]
      [] v = "00" -> [ok |-> TRUE, n |-> 0]
      [] v = "5" -> [ok |-> TRUE, n |-> 5]
      [] OTHER -> [ok |-> FALSE, n |-> 0]

\* The grpc-status-details-bin header: none, one that decodes to a Status
\* (code 9, message "detail"), one that does not decode.
GrpcDetails ==
    {"", "valid", "invalid"}

\* Upstream responses: grpc-status (header or trailer), grpc-message,
\* grpc-status-details-bin, and the body.
UpstreamResponses ==
    [grpcStatus : GrpcStatuses, grpcMessage : {"nope"}, details : GrpcDetails,
     data : {<<>>, <<0, 0, 0>>, <<0, 0, 0, 0, 0>>, <<0, 0, 0, 0, 1, 7>>}]

\* What the transcoder returns to its caller.
Returned(kind, status, contentType, code, message, body) ==
    [kind |-> kind, status |-> status, contentType |-> contentType, code |-> code,
     message |-> message, body |-> body]

\* The response direction of the transcoder, for an upstream response of HTTP
\* status 200: the Status as JSON when grpc-status is not "0", else the body
\* without its first five bytes.
transcodeResponse(resp, contentType) ==
    IF resp.grpcStatus # "0"
        THEN IF ~ParseInt(resp.grpcStatus).ok THEN Returned("error", 0, <<>>, 0, "", <<>>)
             ELSE IF resp.details = "invalid" THEN Returned("error", 0, <<>>, 0, "", <<>>)
             ELSE IF resp.details = "valid"
                 THEN Returned("status", 200, contentType, 9, "detail", <<>>)
             ELSE Returned("status", 200, contentType, ParseInt(resp.grpcStatus).n,
                           resp.grpcMessage, <<>>)
    ELSE IF Len(resp.data) < 5 THEN Returned("panic", 0, <<>>, 0, "", <<>>)
    ELSE Returned("body", 200, contentType, 0, "", SubSeq(resp.data, 6, Len(resp.data)))

\* No request in the transcoder.
NoTranscode ==
    [pc |-> "none", protocol |-> "HTTP", contentType |-> <<>>, body |-> <<>>,
     path |-> <<>>,
     inbound |-> [contentType |-> <<>>, body |-> <<>>, contentLength |-> 0,
                  transcoded |-> FALSE, path |-> <<>>],
     sent |-> <<>>, upstream |-> <<>>, returned |-> Returned("none", 0, <<>>, 0, "", <<>>)]

\* A request of some protocol, Content-Type and body, for the path /a/a,
\* reaches the handler.
InitTranscode ==
    \E p \in Protocols, ct \in ContentTypes, b \in SeqsUpTo(Bytes, MaxBody) :
        tc = [NoTranscode EXCEPT !.pc = "call", !.protocol = p,
                                 !.contentType = ct, !.body = b,
                                 !.path = <<"/", "a", "/", "a">>,
                                 !.inbound = [contentType |-> ct, body |-> b,
                                              contentLength |-> Len(b), transcoded |-> FALSE,
                                              path |-> <<"/", "a", "/", "a">>]]

\* An attempt of the handler: the clone of the inbound request, with a new reader
\* of the body, goes through the rewrite middleware (strip-prefix /a) and the
\* transcoder to next.RoundTrip.
TcAttempt ==
    /\ tc.pc \in {"call", "returned"}
    /\ Len(tc.sent) < MaxAttempts
    /\ LET rewritten == [tc.inbound EXCEPT !.path = stripPrefix(@, <<"/", "a">>)]
           out == transcodeRequest(rewritten, tc.protocol)
       IN  tc' = [tc EXCEPT !.pc = "sent", !.sent = Append(@, out),
                            !.inbound = inboundAfter(@, out)]
    /\ UNCHANGED <<proxyVars, handlerVars, watchVars, filt, pth, mw, sc, rp, na>>

\* next.RoundTrip returns an error: the transcoder returns it.
TcRoundTripError ==
    /\ tc.pc = "sent"
    /\ tc' = [tc EXCEPT !.pc = "returned", !.upstream = <<>>,
                        !.returned = Returned("error", 0, <<>>, 0, "", <<>>)]
    /\ UNCHANGED <<proxyVars, handlerVars, watchVars, filt, pth, mw, sc, rp, na>>

\* next.RoundTrip returns a response to a request that was not transcoded.
TcPassThrough(resp) ==
    /\ tc.pc = "sent"
    /\ ~tc.sent[Len(tc.sent)].transcoded
    /\ tc' = [tc EXCEPT !.pc = "returned", !.upstream = <<resp>>,
                        !.returned = Returned("upstream", 200, <<>>, 0, "", resp.data)]
    /\ UNCHANGED <<proxyVars, handlerVars, watchVars, filt, pth, mw, sc, rp, na>>

\* next.RoundTrip returns a response to a transcoded request.
TcRespond(resp) ==
    /\ tc.pc = "sent"
    /\ tc.sent[Len(tc.sent)].transcoded
    /\ tc' = [tc EXCEPT !.pc = "returned", !.upstream = <<resp>>,
                        !.returned = transcodeResponse(resp, tc.inbound.contentType)]
    /\ UNCHANGED <<proxyVars, handlerVars, watchVars, filt, pth, mw, sc, rp, na>>

NextTranscode ==
    \/ TcAttempt
    \/ TcRoundTripError
    \/ \E resp \in UpstreamResponses : TcPassThrough(resp)
    \/ \E resp \in UpstreamResponses : TcRespond(resp)

\* ------------------------------------------- cleanPath, stripPrefix: calls
\* No call of a path function.
NoPathCall ==
    [pc |-> "none", fn |-> "none", p |-> <<>>, prefix |-> <<>>, out |-> <<>>, again |-> <<>>]

\* A request path reaches muxRouter.ServeHTTP, or a path and the strip-prefix
\* option reach the rewrite middleware.
InitPath ==
    \/ \E p \in SeqsUpTo(Chars, MaxPath) :
           pth = [NoPathCall EXCEPT !.pc = "call", !.fn = "cleanPath", !.p = p]
    \/ \E p \in SeqsUpTo(Chars, MaxPath), x \in SeqsUpTo(Chars, MaxPrefix) :
           pth = [NoPathCall EXCEPT !.pc = "call", !.fn = "stripPrefix", !.p = p,
                                    !.prefix = x]

\* ServeHTTP: req.URL.Path = cleanPath(req.URL.Path).
CleanPathApply ==
    /\ pth.pc = "call"
    /\ pth.fn = "cleanPath"
    /\ pth' = [pth EXCEPT !.pc = "returned", !.out = cleanPath(pth.p)]
    /\ UNCHANGED <<proxyVars, handlerVars, watchVars, filt, tc, mw, sc, rp, na>>

\* The cleaned path is cleaned once more (a request that is served again with
\* the path of the first pass).
CleanPathAgain ==
    /\ pth.pc = "returned"
    /\ pth.fn = "cleanPath"
    /\ pth' = [pth EXCEPT !.pc = "again", !.again = cleanPath(pth.out)]
    /\ UNCHANGED <<proxyVars, handlerVars, watchVars, filt, tc, mw, sc, rp, na>>

\* The rewrite middleware: req.URL.Path = stripPrefix(req.URL.Path, prefix).
StripPrefixApply ==
    /\ pth.pc = "call"
    /\ pth.fn = "stripPrefix"
    /\ pth' = [pth EXCEPT !.pc = "returned", !.out = stripPrefix(pth.p, pth.prefix)]
    /\ UNCHANGED <<proxyVars, handlerVars, watchVars, filt, tc, mw, sc, rp, na>>

NextPath ==
    \/ CleanPathApply
    \/ CleanPathAgain
    \/ StripPrefixApply

\* ------------------------------------------------------ middleware pipeline
\* Names of the middlewares an endpoint lists; "missing" is not registered,
\* and the factory registered as "failing" returns an error.
EndpointNames ==
    {"e1", "e2", "missing", "failing"}

\* Names of the middlewares of the gateway configuration (global).
GlobalNames ==
    {"g1", "g2", "missing", "failing"}

\* The config.Middleware entries over a set of names: name and required.
MiddlewaresOf(names) ==
    {c \in [name : names, required : BOOLEAN] :
        /\ c.name \in {"e1", "g1"} => ~c.required
        /\ c.name \in {"e2", "g2"} => c.required}

\* getMiddleware finds no factory under the name.
NotFound(name) ==
    name = "missing"

\* The registered factory returns an error for the entry.
FactoryFails(name) ==
    name = "failing"

CreateOptionalFails(cfg) ==
    IF NotFound(cfg.name)
        THEN [m |-> "nil", err |-> "ErrNotFound", failed |-> <<>>]
    ELSE IF FactoryFails(cfg.name)
        THEN [m |-> "nil", err |-> "create failed", failed |-> <<<<cfg.name, cfg.required>>>>]
    ELSE [m |-> cfg.name, err |-> "nil", failed |-> <<>>]

\* middlewareRegistry.Create: ErrNotFound for a name that is not registered;
\* when the factory fails, its error for a required middleware and
\* EmptyMiddleware for an optional one, _failedMiddlewareCreate incremented for
\* (name, required) in both cases.
Create(cfg) ==
    IF NotFound(cfg.name)
        THEN [m |-> "nil", err |-> "ErrNotFound", failed |-> <<>>]
    ELSE IF FactoryFails(cfg.name)
        THEN IF cfg.required
                 THEN [m |-> "nil", err |-> "create failed",
                       failed |-> <<<<cfg.name, TRUE>>>>]
             ELSE [m |-> "EmptyMiddleware", err |-> "nil",
                   failed |-> <<<<cfg.name, FALSE>>>>]
    ELSE [m |-> cfg.name, err |-> "nil", failed |-> <<>>]

\* m.Process(next): EmptyMiddleware returns next itself. A round tripper is
\* the sequence of the names it goes through, the outermost first.
Process(m, next) ==
    IF m = "EmptyMiddleware" THEN next ELSE <<m>> \o next

\* What a build has so far: the round tripper, the error, and the increments
\* of _failedMiddlewareCreate.
Built(tripper) ==
    [tripper |-> tripper, err |-> "nil", failed |-> <<>>]

RECURSIVE buildMiddlewareFrom(_, _, _)
\* The loop of buildMiddleware, from index i down to the first middleware:
\* ErrNotFound is skipped, another error is returned, otherwise
\* next = m.Process(next).
buildMiddlewareFrom(ms, i, next) ==
    IF i < 1 THEN next
    ELSE LET c == Create(ms[i])
             counted == [next EXCEPT !.failed = @ \o c.failed]
         IN  IF c.err = "ErrNotFound" THEN buildMiddlewareFrom(ms, i - 1, next)
             ELSE IF c.err # "nil" THEN [counted EXCEPT !.tripper = <<>>, !.err = c.err]
             ELSE buildMiddlewareFrom(ms, i - 1,
                                      [counted EXCEPT !.tripper = Process(c.m, @)])

buildMiddleware(ms, next) ==
    buildMiddlewareFrom(ms, Len(ms), next)

buildTripperEndpointOutermost(endpointMs, globalMs) ==
    LET inner == buildMiddleware(globalMs, Built(<<"client">>))
    IN  IF inner.err # "nil" THEN inner ELSE buildMiddleware(endpointMs, inner)

\* The tripper of buildEndpoint: the client, wrapped by the endpoint's
\* middlewares, wrapped by the global ones; the first error is returned.
buildTripper(endpointMs, globalMs) ==
    LET inner == buildMiddleware(endpointMs, Built(<<"client">>))
    IN  IF inner.err # "nil" THEN inner ELSE buildMiddleware(globalMs, inner)

\* No endpoint built.
NoPipeline ==
    [pc |-> "none", endpoint |-> <<>>, global |-> <<>>, tripper |-> <<>>, at |-> 0,
     events |-> <<>>, err |-> "nil", failed |-> <<>>]

\* An endpoint with some middlewares, in a configuration with some global ones.
InitPipeline ==
    \E ems \in SeqsUpTo(MiddlewaresOf(EndpointNames), MaxMiddlewares),
       gms \in SeqsUpTo(MiddlewaresOf(GlobalNames), MaxMiddlewares) :
        mw = [NoPipeline EXCEPT !.pc = "config", !.endpoint = ems, !.global = gms]

\* buildEndpoint builds the tripper and goes on to build the handler.
PipelineBuild ==
    /\ mw.pc = "config"
    /\ LET b == buildTripper(mw.endpoint, mw.global)
       IN  /\ b.err = "nil"
           /\ mw' = [mw EXCEPT !.pc = "built", !.tripper = b.tripper, !.failed = b.failed]
    /\ UNCHANGED <<proxyVars, handlerVars, watchVars, filt, tc, pth, sc, rp, na>>

\* buildMiddleware returns an error: buildEndpoint returns nil, nil, err, and
\* Update returns the error before the swap.
PipelineBuildError ==
    /\ mw.pc = "config"
    /\ LET b == buildTripper(mw.endpoint, mw.global)
       IN  /\ b.err # "nil"
           /\ mw' = [mw EXCEPT !.pc = "failed", !.err = b.err, !.failed = b.failed]
    /\ UNCHANGED <<proxyVars, handlerVars, watchVars, filt, tc, pth, sc, rp, na>>

\* tripper.RoundTrip(req): the request enters the outermost round tripper.
PipelineRoundTrip ==
    /\ mw.pc = "built"
    /\ mw' = [mw EXCEPT !.pc = "request", !.at = 1,
                        !.events = <<<<"request", mw.tripper[1]>>>>]
    /\ UNCHANGED <<proxyVars, handlerVars, watchVars, filt, tc, pth, sc, rp, na>>

\* A middleware calls next.RoundTrip(req).
PipelineNext ==
    /\ mw.pc = "request"
    /\ mw.at < Len(mw.tripper)
    /\ mw' = [mw EXCEPT !.at = @ + 1,
                        !.events = Append(@, <<"request", mw.tripper[mw.at + 1]>>)]
    /\ UNCHANGED <<proxyVars, handlerVars, watchVars, filt, tc, pth, sc, rp, na>>

\* The client returns the response.
PipelineClientReturn ==
    /\ mw.pc = "request"
    /\ mw.at = Len(mw.tripper)
    /\ mw' = [mw EXCEPT !.pc = "response",
                        !.events = Append(@, <<"response", mw.tripper[mw.at]>>)]
    /\ UNCHANGED <<proxyVars, handlerVars, watchVars, filt, tc, pth, sc, rp, na>>

\* next.RoundTrip returns to the middleware that called it, which returns the
\* response in its turn.
PipelineReturn ==
    /\ mw.pc = "response"
    /\ mw.at > 1
    /\ mw' = [mw EXCEPT !.at = @ - 1,
                        !.events = Append(@, <<"response", mw.tripper[mw.at - 1]>>)]
    /\ UNCHANGED <<proxyVars, handlerVars, watchVars, filt, tc, pth, sc, rp, na>>

\* The outermost round tripper has returned the response to the handler.
PipelineDone ==
    /\ mw.pc = "response"
    /\ mw.at = 1
    /\ mw' = [mw EXCEPT !.pc = "done", !.at = 0]
    /\ UNCHANGED <<proxyVars, handlerVars, watchVars, filt, tc, pth, sc, rp, na>>

NextPipeline ==
    \/ PipelineBuild
    \/ PipelineBuildError
    \/ PipelineRoundTrip
    \/ PipelineNext
    \/ PipelineClientReturn
    \/ PipelineReturn
    \/ PipelineDone

\* ---------------------------------------------------------------- SyncClose
\* The closers of the superseded router.
Closers ==
    1..MaxClosers

\* No router has been superseded.
NoSyncClose ==
    [pc |-> "none", allCloser |-> <<>>, wg |-> 0, loaded |-> 0, waited |-> "no",
     pending |-> 0, i |-> 1, invoked |-> <<>>, failed |-> {}]

\* tryCloseRouter has started SyncClose on a router with some closers, some
\* requests inside muxRouter.ServeHTTP (wg) and some that hold the router from
\* p.router.Load() but have not entered it yet.
InitSyncClose ==
    \E n \in 0..MaxClosers, w \in 0..MaxPending, l \in 0..1 :
        sc = [NoSyncClose EXCEPT !.pc = "wait", !.allCloser = [c \in 1..n |-> c],
                                 !.wg = w, !.loaded = l]

\* muxRouter.ServeHTTP: r.wg.Add(1).
RouterEnter ==
    /\ sc.pc # "none"
    /\ sc.loaded > 0
    /\ sc' = [sc EXCEPT !.loaded = @ - 1, !.wg = @ + 1]
    /\ UNCHANGED <<proxyVars, handlerVars, watchVars, filt, tc, pth, mw, rp, na>>

\* muxRouter.ServeHTTP returns: the deferred r.wg.Done().
RouterLeave ==
    /\ sc.pc # "none"
    /\ sc.wg > 0
    /\ sc' = [sc EXCEPT !.wg = @ - 1]
    /\ UNCHANGED <<proxyVars, handlerVars, watchVars, filt, tc, pth, mw, rp, na>>

\* waitTimeout: wg.Wait() has returned and c is closed; the result is false.
waitDrained ==
    /\ sc.pc = "wait"
    /\ sc.wg = 0
    /\ sc' = [sc EXCEPT !.pc = "close", !.waited = "drained", !.pending = sc.wg]
    /\ UNCHANGED <<proxyVars, handlerVars, watchVars, filt, tc, pth, mw, rp, na>>

\* waitTimeout: the context of 120 s is done; the result is true and SyncClose
\* logs the warning.
waitTimedOut ==
    /\ sc.pc = "wait"
    /\ sc' = [sc EXCEPT !.pc = "close", !.waited = "timeout", !.pending = sc.wg]
    /\ UNCHANGED <<proxyVars, handlerVars, watchVars, filt, tc, pth, mw, rp, na>>

\* SyncClose, the loop over allCloser: closer.Close() returns nil.
CloserClose ==
    /\ sc.pc = "close"
    /\ sc.i <= Len(sc.allCloser)
    /\ sc' = [sc EXCEPT !.i = @ + 1, !.invoked = Append(@, sc.allCloser[sc.i])]
    /\ UNCHANGED <<proxyVars, handlerVars, watchVars, filt, tc, pth, mw, rp, na>>

CloserCloseErrorReturns ==
    /\ sc.pc = "close"
    /\ sc.i <= Len(sc.allCloser)
    /\ sc' = [sc EXCEPT !.pc = "closed", !.invoked = Append(@, sc.allCloser[sc.i]),
                        !.failed = @ \cup {sc.allCloser[sc.i]}]
    /\ UNCHANGED <<proxyVars, handlerVars, watchVars, filt, tc, pth, mw, rp, na>>

\* SyncClose, the loop over allCloser: closer.Close() returns an error, which is
\* logged; the loop continues.
CloserCloseError ==
    /\ sc.pc = "close"
    /\ sc.i <= Len(sc.allCloser)
    /\ sc' = [sc EXCEPT !.i = @ + 1, !.invoked = Append(@, sc.allCloser[sc.i]),
                        !.failed = @ \cup {sc.allCloser[sc.i]}]
    /\ UNCHANGED <<proxyVars, handlerVars, watchVars, filt, tc, pth, mw, rp, na>>

\* SyncClose returns nil after the loop.
SyncCloseReturn ==
    /\ sc.pc = "close"
    /\ sc.i > Len(sc.allCloser)
    /\ sc' = [sc EXCEPT !.pc = "closed"]
    /\ UNCHANGED <<proxyVars, handlerVars, watchVars, filt, tc, pth, mw, rp, na>>

\* One iteration of the loop over allCloser.
CloserStep ==
    \/ CloserClose
    \/ CloserCloseError

NextSyncClose ==
    \/ RouterEnter
    \/ RouterLeave
    \/ waitDrained
    \/ waitTimedOut
    \/ CloserStep
    \/ SyncCloseReturn

\* ------------------------------------------------------ proccleanup: data
\* The endpoint keys of s.appliers, and the ids (uuid4) of the appliers of a key.
EndpointKeys ==
    1..MaxKeys

ApplierIds ==
    {1, 2}

\* An access to s.appliers or to one of its inner maps, and the lock of
\* s.lock the goroutine holds while it makes it.
Access(who, map, op, lock) ==
    [who |-> who, map |-> map, op |-> op, lock |-> lock]

\* The keys s.appliers holds: Add creates the inner map with the first applier
\* of a key, and nothing deletes a key.
keysOf(appliers) ==
    {k \in EndpointKeys : \E id \in ApplierIds : appliers[k][id] # "absent"}

\* The appliers for which Canceled() is true.
canceledOf(appliers) ==
    {x \in EndpointKeys \X ApplierIds : appliers[x[1]][x[2]] = "canceled"}

NoCleanup ==
    [pc |-> "none", appliers |-> [k \in EndpointKeys |-> [id \in ApplierIds |-> "absent"]],
     keys |-> {}, todo |-> {}, endpoint |-> 0, cleanup |-> {}, atStart |-> {},
     access |-> {}]

\* The cleanup task sleeps; Add has registered some appliers, and some of them
\* have been cancelled.
InitCleanup ==
    \E a \in [EndpointKeys -> [ApplierIds -> {"absent", "live", "canceled"}]] :
        rp = [NoCleanup EXCEPT !.pc = "sleep", !.appliers = a, !.keys = keysOf(a)]

\* The range over s.appliers of a pass is under way.
Ranging ==
    rp.pc \in {"range", "endpoint", "scanned"}

\* -------------------------------------------------- proccleanup: operations
\* time.Sleep(interval) is over and doCleanup starts: the range over
\* s.appliers begins, no lock held.
doCleanupStart ==
    /\ rp.pc \in {"sleep", "passed"}
    /\ rp' = [rp EXCEPT !.pc = "range", !.todo = rp.keys, !.endpoint = 0, !.cleanup = {},
                        !.atStart = canceledOf(rp.appliers),
                        !.access = {Access("proccleanup", "appliers", "range", "none")}]
    /\ UNCHANGED <<proxyVars, handlerVars, watchVars, filt, tc, pth, mw, sc, na>>

\* The range gives the next key, in the order of the map iteration, which is
\* not specified; no lock held.
doCleanupRange(k) ==
    /\ rp.pc = "range"
    /\ k \in rp.todo
    /\ rp' = [rp EXCEPT !.pc = "endpoint", !.todo = @ \ {k}, !.endpoint = k, !.cleanup = {},
                        !.access = {Access("proccleanup", "appliers", "range", "none")}]
    /\ UNCHANGED <<proxyVars, handlerVars, watchVars, filt, tc, pth, mw, sc, na>>

\* Under the read lock: the ids of the key's appliers with Canceled() true.
doCleanupScan ==
    /\ rp.pc = "endpoint"
    /\ rp' = [rp EXCEPT !.pc = "scanned",
                        !.cleanup = {id \in ApplierIds : rp.appliers[rp.endpoint][id] = "canceled"},
                        !.access = {Access("proccleanup", "appliers[endpoint]", "range", "R")}]
    /\ UNCHANGED <<proxyVars, handlerVars, watchVars, filt, tc, pth, mw, sc, na>>

\* if len(cleanup) <= 0 { return }: doCleanup returns, the pass is over.
doCleanupReturn ==
    /\ rp.pc = "scanned"
    /\ rp.cleanup = {}
    /\ rp' = [rp EXCEPT !.pc = "passed", !.todo = {}, !.endpoint = 0, !.access = {}]
    /\ UNCHANGED <<proxyVars, handlerVars, watchVars, filt, tc, pth, mw, sc, na>>

\* Under the write lock: delete(appliers, id) for every id of cleanup; the range
\* goes on.
doCleanupDelete ==
    /\ rp.pc = "scanned"
    /\ rp.cleanup # {}
    /\ rp' = [rp EXCEPT !.pc = "range",
                        !.appliers[rp.endpoint] =
                            [id \in ApplierIds |-> IF id \in rp.cleanup THEN "deleted" ELSE @[id]],
                        !.cleanup = {},
                        !.access = {Access("proccleanup", "appliers[endpoint]", "delete", "W")}]
    /\ UNCHANGED <<proxyVars, handlerVars, watchVars, filt, tc, pth, mw, sc, na>>

\* The range has given every key: doCleanup returns, the pass is over.
doCleanupEnd ==
    /\ rp.pc = "range"
    /\ rp.todo = {}
    /\ rp' = [rp EXCEPT !.pc = "passed", !.endpoint = 0, !.access = {}]
    /\ UNCHANGED <<proxyVars, handlerVars, watchVars, filt, tc, pth, mw, sc, na>>

\* nodeApplier.Cancel: Canceled() of a registered applier becomes true.
ApplierCancel(k, id) ==
    /\ rp.pc \notin {"none", "fatal"}
    /\ rp.appliers[k][id] = "live"
    /\ rp' = [rp EXCEPT !.appliers[k][id] = "canceled", !.access = {}]
    /\ UNCHANGED <<proxyVars, handlerVars, watchVars, filt, tc, pth, mw, sc, na>>

\* Add registers an applier under a new id, write lock held: the key's inner
\* map is created and stored in s.appliers if the key is not there. Here the
\* cleanup task is not ranging over s.appliers, or the key is in it already.
AddRegister(k, id) ==
    /\ rp.pc \notin {"none", "fatal"}
    /\ rp.appliers[k][id] = "absent"
    /\ k \in rp.keys \/ ~Ranging
    /\ rp' = [rp EXCEPT !.appliers[k][id] = "live", !.keys = @ \cup {k},
                        !.access = {Access("Add", "appliers", "read", "W"),
                                    Access("Add", "appliers[endpoint]", "write", "W")}
                                   \cup IF k \in rp.keys THEN {}
                                        ELSE {Access("Add", "appliers", "write", "W")}]
    /\ UNCHANGED <<proxyVars, handlerVars, watchVars, filt, tc, pth, mw, sc, na>>

\* Add stores a new key in s.appliers while the cleanup task, which holds no
\* lock, ranges over it: a data race. The iteration gives the new key later
\* (seen) or never.
AddRegisterRacing(k, id, seen) ==
    /\ Ranging
    /\ rp.appliers[k][id] = "absent"
    /\ k \notin rp.keys
    /\ rp' = [rp EXCEPT !.appliers[k][id] = "live", !.keys = @ \cup {k},
                        !.todo = IF seen THEN @ \cup {k} ELSE @,
                        !.access = {Access("Add", "appliers", "read", "W"),
                                    Access("Add", "appliers", "write", "W"),
                                    Access("Add", "appliers[endpoint]", "write", "W")}]
    /\ UNCHANGED <<proxyVars, handlerVars, watchVars, filt, tc, pth, mw, sc, na>>

\* The same race, detected by the runtime: fatal error "concurrent map
\* iteration and map write", the process ends.
AddRegisterFatal(k, id) ==
    /\ Ranging
    /\ rp.appliers[k][id] = "absent"
    /\ k \notin rp.keys
    /\ rp' = [rp EXCEPT !.pc = "fatal",
                        !.access = {Access("Add", "appliers", "read", "W"),
                                    Access("Add", "appliers", "write", "W")}]
    /\ UNCHANGED <<proxyVars, handlerVars, watchVars, filt, tc, pth, mw, sc, na>>

\* /debug/watcher/appliers: getAppliers looks the key up under the read lock
\* and returns the inner map; the handler encodes it after the lock is released.
DebugAppliers(k) ==
    /\ rp.pc \notin {"none", "fatal"}
    /\ rp' = [rp EXCEPT !.access = {Access("getAppliers", "appliers", "read", "R")}
                                   \cup IF k \in rp.keys
                                            THEN {Access("DebugHandler", "appliers[endpoint]",
                                                         "range", "none")}
                                        ELSE {}]
    /\ UNCHANGED <<proxyVars, handlerVars, watchVars, filt, tc, pth, mw, sc, na>>

NextCleanup ==
    \/ doCleanupStart
    \/ \E k \in EndpointKeys : doCleanupRange(k)
    \/ doCleanupScan
    \/ doCleanupReturn
    \/ doCleanupDelete
    \/ doCleanupEnd
    \/ \E k \in EndpointKeys, id \in ApplierIds : ApplierCancel(k, id)
    \/ \E k \in EndpointKeys, id \in ApplierIds : AddRegister(k, id)
    \/ \E k \in EndpointKeys, id \in ApplierIds, seen \in BOOLEAN : AddRegisterRacing(k, id, seen)
    \/ \E k \in EndpointKeys, id \in ApplierIds : AddRegisterFatal(k, id)
    \/ \E k \in EndpointKeys : DebugAppliers(k)

\* ------------------------------------------------------ nodeApplier: data
\* A backend target, as the pieces of its string: a bare host:port, the
\* direct scheme with the address, a discovery target, and a scheme that is
\* not known.
Targets ==
    {<<"h1:80">>,
     <<"direct", "://", "h2:80">>,
     <<"discovery", "://", "/", "svc">>,
     <<"consul", "://", "/", "svc">>}

\* strings.Contains(endpoint, "://")
ContainsSchemeSep(t) ==
    \E i \in 1..Len(t) : t[i] = "://"

\* parseTarget: a string without "://" gets the prefix "direct:///"; the
\* scheme, the authority (u.Host) and the endpoint (u.Path without its first
\* character) of the URL.
parseTarget(endpoint) ==
    LET u == IF ContainsSchemeSep(endpoint) THEN endpoint
             ELSE <<"direct", "://", "/">> \o endpoint
        rest == SubSeq(u, 3, Len(u))
    IN  IF rest # <<>> /\ Head(rest) = "/"
            THEN [Scheme |-> u[1], Authority |-> "",
                  Endpoint |-> IF Len(rest) > 1 THEN rest[2] ELSE ""]
        ELSE [Scheme |-> u[1], Authority |-> IF rest = <<>> THEN "" ELSE rest[1],
              Endpoint |-> ""]

\* The endpoints of a service instance, as url.Parse gives them: scheme, host
\* and the isSecure query parameter.
Uri(scheme, host, secure) ==
    [scheme |-> scheme, host |-> host, isSecure |-> secure, parseError |-> FALSE]

\* An endpoint string that url.Parse rejects.
BadUri ==
    [scheme |-> "", host |-> "", isSecure |-> FALSE, parseError |-> TRUE]

\* The service instances discovery can report, by their endpoints.
ServiceInstances ==
    {<<Uri("grpc", "b:90", FALSE), Uri("http", "b:80", FALSE)>>,
     <<Uri("http", "c:443", TRUE), Uri("http", "c:80", FALSE)>>,
     <<Uri("http", "d:443", TRUE)>>,
     <<BadUri, Uri("http", "e:80", FALSE)>>}

RECURSIVE parseEndpointFrom(_, _, _, _)
\* The loop of parseEndpoint from the i-th endpoint: a url.Parse error is
\* returned; the host of the first endpoint with the scheme and with
\* IsSecure equal to isSecure; "" when there is none.
parseEndpointFrom(endpoints, i, scheme, isSecure) ==
    IF i > Len(endpoints) THEN [addr |-> "", err |-> FALSE]
    ELSE IF endpoints[i].parseError THEN [addr |-> "", err |-> TRUE]
    ELSE IF endpoints[i].scheme = scheme /\ endpoints[i].isSecure = isSecure
        THEN [addr |-> endpoints[i].host, err |-> FALSE]
    ELSE parseEndpointFrom(endpoints, i + 1, scheme, isSecure)

parseEndpointAnySecure(endpoints, scheme, isSecure) ==
    LET secure == parseEndpointFrom(endpoints, 1, scheme, TRUE)
        plain == parseEndpointFrom(endpoints, 1, scheme, FALSE)
    IN  IF plain.addr # "" \/ plain.err THEN plain ELSE secure

parseEndpoint(endpoints, scheme, isSecure) ==
    parseEndpointFrom(endpoints, 1, scheme, isSecure)

\* strings.ToLower(na.endpoint.Protocol.String())
SchemeOf(protocol) ==
    IF protocol = "GRPC" THEN "grpc" ELSE "http"

\* newNode: the node has the address it is given; direct tells the nodes of
\* apply from those of Callback.
newNode(addr, direct) ==
    [address |-> addr, direct |-> direct]

RECURSIVE callbackNodes(_, _, _)
\* The loop of Callback over services from the i-th: an instance whose
\* parseEndpoint fails or gives "" is skipped.
callbackNodes(services, i, scheme) ==
    IF i > Len(services) THEN <<>>
    ELSE LET r == parseEndpoint(services[i], scheme, FALSE)
             rest == callbackNodes(services, i + 1, scheme)
         IN  IF r.err \/ r.addr = "" THEN rest
             ELSE <<newNode(<<r.addr>>, FALSE)>> \o rest

\* nodeApplier.Callback on the applier x: nothing for a cancelled applier or
\* an empty list, otherwise picker.Apply(nodes).
applierCallback(x, services) ==
    LET y == [x EXCEPT !.last = services, !.calls = 1 - @]
    IN  IF x.canceled \/ services = <<>> THEN y
        ELSE [y EXCEPT !.picker = callbackNodes(services, 1, SchemeOf(x.protocol))]

NoApplier ==
    [pc |-> "none", protocol |-> "HTTP", backends |-> <<>>, i |-> 0, nodes |-> <<>>,
     picker |-> <<>>, canceled |-> FALSE, watching |-> FALSE, last |-> <<>>,
     calls |-> 0, urlHost |-> <<>>, selected |-> 0]

\* NewFactory has made the applier of an endpoint and calls apply.
InitApplier ==
    \E protocol \in Protocols, backends \in SeqsUpTo(Targets, MaxBackends) :
        na = [NoApplier EXCEPT !.pc = "apply", !.protocol = protocol,
                               !.backends = backends, !.i = 1]

\* ------------------------------------------------ nodeApplier: operations
\* apply, a direct backend: a node with backend.Target as its address is
\* appended to nodes, and picker.Apply(nodes).
applyDirect ==
    /\ na.pc = "apply"
    /\ na.i <= Len(na.backends)
    /\ parseTarget(na.backends[na.i]).Scheme = "direct"
    /\ LET nodes == Append(na.nodes, newNode(na.backends[na.i], TRUE))
       IN  na' = [na EXCEPT !.nodes = nodes, !.picker = nodes, !.i = @ + 1]
    /\ UNCHANGED <<proxyVars, handlerVars, watchVars, filt, tc, pth, mw, sc, rp>>

\* apply, a discovery backend: AddWatch registers the applier; Add gives it the
\* initial or the cached list before it returns.
applyDiscovery(services) ==
    /\ na.pc = "apply"
    /\ na.i <= Len(na.backends)
    /\ parseTarget(na.backends[na.i]).Scheme = "discovery"
    /\ na' = [applierCallback(na, services) EXCEPT !.watching = TRUE, !.i = @ + 1]
    /\ UNCHANGED <<proxyVars, handlerVars, watchVars, filt, tc, pth, mw, sc, rp>>

\* apply, a discovery backend: Add gives no list (the watch or its initial
\* Next failed, or the cached list is empty).
applyDiscoveryNoList ==
    /\ na.pc = "apply"
    /\ na.i <= Len(na.backends)
    /\ parseTarget(na.backends[na.i]).Scheme = "discovery"
    /\ na' = [na EXCEPT !.watching = TRUE, !.i = @ + 1]
    /\ UNCHANGED <<proxyVars, handlerVars, watchVars, filt, tc, pth, mw, sc, rp>>

\* apply, a scheme that is not known: apply returns the error.
applyUnknownScheme ==
    /\ na.pc = "apply"
    /\ na.i <= Len(na.backends)
    /\ parseTarget(na.backends[na.i]).Scheme \notin {"direct", "discovery"}
    /\ na' = [na EXCEPT !.pc = "failed"]
    /\ UNCHANGED <<proxyVars, handlerVars, watchVars, filt, tc, pth, mw, sc, rp>>

\* apply returns nil: the client is made.
applyReturn ==
    /\ na.pc = "apply"
    /\ na.i > Len(na.backends)
    /\ na' = [na EXCEPT !.pc = "live"]
    /\ UNCHANGED <<proxyVars, handlerVars, watchVars, filt, tc, pth, mw, sc, rp>>

\* doCallback of the update loop calls Callback of the registered applier.
ApplierCallback(services) ==
    /\ na.pc = "live"
    /\ na.watching
    /\ na' = applierCallback(na, services)
    /\ UNCHANGED <<proxyVars, handlerVars, watchVars, filt, tc, pth, mw, sc, rp>>

\* client.Close: nodeApplier.Cancel.
ApplierClose ==
    /\ na.pc = "live"
    /\ ~na.canceled
    /\ na' = [na EXCEPT !.canceled = TRUE]
    /\ UNCHANGED <<proxyVars, handlerVars, watchVars, filt, tc, pth, mw, sc, rp>>

\* client.RoundTrip: the selector gives a node and req.URL.Host = n.Address().
ClientRoundTrip(n) ==
    /\ na.pc = "live"
    /\ n \in 1..Len(na.picker)
    /\ na' = [na EXCEPT !.pc = "requested", !.selected = n,
                        !.urlHost = na.picker[n].address]
    /\ UNCHANGED <<proxyVars, handlerVars, watchVars, filt, tc, pth, mw, sc, rp>>

NextApplierStep ==
    \/ applyDirect
    \/ \E services \in SeqsUpTo(ServiceInstances, MaxInstances) : applyDiscovery(services)
    \/ applyDiscoveryNoList
    \/ applyUnknownScheme
    \/ applyReturn
    \/ \E services \in SeqsUpTo(ServiceInstances, MaxInstances) : ApplierCallback(services)
    \/ ApplierClose
    \/ \E n \in 1..(MaxBackends + MaxInstances) : ClientRoundTrip(n)

NextProxy ==
    \/ \E u \in Updaters, c \in Configs : UpdateStart(u, c)
    \/ \E u \in Updaters : BuildClientError(u)
    \/ \E u \in Updaters : BuildLateError(u)
    \/ \E u \in Updaters : HandleError(u)
    \/ \E u \in Updaters : HandleOk(u)
    \/ \E u \in Updaters : UpdateSwap(u)
    \/ \E r \in RouterIds : SyncCloseDrained(r)
    \/ \E r \in RouterIds : SyncCloseTimeout(r)
    \/ \E r \in RouterIds : SyncCloseClosers(r)
    \/ \E q \in Requests, p \in Paths : ReqLoad(q, p)
    \/ \E q \in Requests : ReqServe(q)
    \/ \E q \in Requests : ReqDone(q)

Init ==
    /\ InitProxy
    /\ InitHandler
    /\ InitWatch
    /\ filt = NoFilterCall
    /\ tc = NoTranscode
    /\ pth = NoPathCall
    /\ mw = NoPipeline
    /\ sc = NoSyncClose
    /\ rp = NoCleanup
    /\ na = NoApplier

Next ==
    NextProxy

Spec ==
    Init /\ [][Next]_vars

NextHandler ==
    \/ \E e \in RetryEndpoints : HandlerEnter(e)
    \/ \E e \in {"client disconnected", "unexpected EOF"} : BodyReadError(e)
    \/ BodyReadOk
    \/ BreakFeatureOff
    \/ BreakBreakerOpen
    \/ BreakCtxDone
    \/ Dispatch
    \/ SelectError
    \/ \E e \in {"connection refused", "context deadline exceeded", "context canceled"} :
           TransportError(e)
    \/ MiddlewareError
    \/ \E st \in BackendStatuses : ResponseFinal(st)
    \/ \E st \in BackendStatuses : ResponseRetry(st)
    \/ WriteError
    \/ CopyBodyOk
    \/ CopyBodyError
    \/ CtxExpire
    \/ CtxCancel
    \/ \E b \in BOOLEAN : SetRetryFeature(b)

SpecRequest ==
    Init /\ [][NextHandler]_vars

NextWatch ==
    \/ \E k \in Keys, l \in InstanceLists : Emit(k, l)
    \/ \E s \in Subs, k \in Keys : AddExisting(s, k)
    \/ \E s \in Subs, k \in Keys : AddWatchError(s, k)
    \/ \E s \in Subs, k \in Keys : AddOpen(s, k)
    \/ \E s \in Subs : AddInitial(s)
    \/ \E s \in Subs : AddInitialError(s)
    \/ \E s \in Subs : Cancel(s)
    \/ \E k \in Keys : LoopNext(k)
    \/ \E k \in Keys : LoopStop(k)
    \/ \E k \in Keys : LoopCache(k)
    \/ \E k \in Keys : LoopCallback(k)

SpecWatch ==
    Init /\ [][NextWatch]_vars

\* The state in which no request, Update or subscription has started, and one
\* of the parts that are checked on their own has its inputs.
InitOnly(part) ==
    /\ InitProxy
    /\ InitHandler
    /\ InitWatch
    /\ IF part = "filter" THEN InitFilter ELSE filt = NoFilterCall
    /\ IF part = "transcoder" THEN InitTranscode ELSE tc = NoTranscode
    /\ IF part = "path" THEN InitPath ELSE pth = NoPathCall
    /\ IF part = "pipeline" THEN InitPipeline ELSE mw = NoPipeline
    /\ IF part = "SyncClose" THEN InitSyncClose ELSE sc = NoSyncClose
    /\ IF part = "proccleanup" THEN InitCleanup ELSE rp = NoCleanup
    /\ IF part = "nodeApplier" THEN InitApplier ELSE na = NoApplier

SpecFilter ==
    InitOnly("filter") /\ [][FilterApply]_vars

SpecTranscode ==
    InitOnly("transcoder") /\ [][NextTranscode]_vars

SpecPath ==
    InitOnly("path") /\ [][NextPath]_vars

SpecPipeline ==
    InitOnly("pipeline") /\ [][NextPipeline]_vars

SpecCleanup ==
    InitOnly("proccleanup") /\ [][NextCleanup]_vars

SpecApplier ==
    InitOnly("nodeApplier") /\ [][NextApplierStep]_vars

\* SyncClose runs in the goroutine that tryCloseRouter starts: it is scheduled,
\* its deadline passes, and every Close() returns.
SpecSyncClose ==
    /\ InitOnly("SyncClose")
    /\ [][NextSyncClose]_vars
    /\ WF_vars(waitTimedOut)
    /\ WF_vars(CloserStep)
    /\ WF_vars(SyncCloseReturn)

\* ------------------------------------------------------------------ claims
\* A router that was installed at some time.
WasInstalled(r) ==
    routers[r].status \in {"installed", "superseded", "closing", "closed"}

\* A router on which every endpoint of its config is registered (the initial
\* router has the empty config).
FullyBuilt(r) ==
    /\ WasInstalled(r)
    /\ \A i \in 1..Len(routers[r].cfg) : routers[r].cfg[i].fault = "ok"
    /\ routers[r].routes = ConfigPaths(routers[r].cfg)
    /\ Len(routers[r].allCloser) = Len(routers[r].cfg)

\* C1: the proxy holds exactly one installed router at every instant, and the
\* installed router, like every router a request has loaded, is fully built: it
\* is the initial empty router or has every endpoint of its config registered.
C1_RouterFullyBuilt ==
    /\ router \in RouterIds
    /\ {r \in RouterIds : routers[r].status = "installed"} = {router}
    /\ FullyBuilt(router)
    /\ \A q \in Requests : req[q].pc \in {"loaded", "serving"} => FullyBuilt(req[q].router)

\* A request is being served by a complete two-endpoint router while an Update
\* has a router with only the first of its two endpoints registered.
C1_Witness ==
    /\ \E q \in Requests : req[q].pc = "serving" /\ Cardinality(routers[req[q].router].routes) = 2
    /\ \E u \in Updaters : /\ upd[u].pc = "build"
                           /\ upd[u].idx = 2
                           /\ Len(routers[upd[u].rid].cfg) = 2
                           /\ routers[upd[u].rid].routes = {"/a"}

\* C2: an Update that returns an error leaves the installed router as it was, and
\* the installed router changes only in the step of an Update that has built and
\* registered every endpoint of its config.
C2_FailedUpdateKeepsRouter ==
    [][/\ \A u \in Updaters :
            (upd[u].pc = "build" /\ routers'[upd[u].rid].status = "failed") => router' = router
       /\ router' # router =>
            \E u \in Updaters : /\ upd[u].pc = "build"
                                /\ router' = upd[u].rid
                                /\ upd'[u].pc = "idle"
                                /\ routers[router'].status = "building"
                                /\ routers'[router'].status = "installed"
                                /\ routers[router'].routes = ConfigPaths(routers[router'].cfg)
                                /\ Len(routers[router'].allCloser) = Len(routers[router'].cfg)
                                /\ \A i \in 1..Len(routers[router'].cfg) :
                                       routers[router'].cfg[i].fault = "ok"]_vars

\* An Update has failed after collecting a closer, and the router that an earlier
\* Update installed is still the installed one.
C2_Witness ==
    /\ router # 0
    /\ \E r \in RouterIds : /\ routers[r].status = "failed"
                            /\ Len(routers[r].closers) >= 1
                            /\ r > router

\* C3: a request that enters ServeHTTP after the swap to generation G2 (and before
\* any later swap) is dispatched by G2's router: the router it loads is the one the
\* latest completed swap installed, a path G2 configures is served by G2's handler
\* for it, and any other path (one only an earlier generation configured) gets 404.
C3_DispatchedByLatest ==
    \A q \in Requests :
        req[q].pc \in {"loaded", "serving"} =>
            LET r == req[q].router
            IN  /\ routers[r].installSeq = req[q].enterSeq
                /\ req[q].pc = "serving" =>
                      req[q].result = IF req[q].path \in ConfigPaths(routers[r].cfg)
                                          THEN <<"handler", r, req[q].path>>
                                      ELSE <<"404">>

\* /a was configured by a generation that has been superseded; a request for /a
\* that entered after the swap gets 404 from the new generation's router.
C3_Witness ==
    \E q \in Requests :
        /\ req[q].pc = "serving"
        /\ req[q].path = "/a"
        /\ req[q].result = <<"404">>
        /\ routers[req[q].router].routes = {"/b"}
        /\ \E r \in RouterIds : /\ routers[r].status \in {"superseded", "closing", "closed"}
                                /\ "/a" \in routers[r].routes
                                /\ routers[r].installSeq < req[q].enterSeq

\* Every closer that some endpoint build has returned.
ClosersOf(r) ==
    1..Len(routers[r].closers)

\* The Close() calls a closer has had by now are those its router's fate asks for.
ClosedAsDue(r) ==
    \A i \in ClosersOf(r) :
        routers[r].closers[i] = IF routers[r].status \in {"failed", "closed"} THEN 1 ELSE 0

\* C6: a closer is never closed twice; it is closed once when the Update that
\* collected it has failed and once when SyncClose of its superseded router has
\* run, and not before; and nothing blocks SyncClose on a superseded router from
\* going on to close (its wait ends with the pending requests or the deadline).
C6_ClosersExactlyOnce ==
    \A r \in RouterIds :
        /\ ClosedAsDue(r)
        /\ routers[r].status = "superseded" =>
               ENABLED (SyncCloseDrained(r) \/ SyncCloseTimeout(r))
        /\ routers[r].status = "closing" => ENABLED SyncCloseClosers(r)

\* A router with two closers was superseded and SyncClose has closed both once.
C6_Witness ==
    \E r \in RouterIds : /\ routers[r].status = "closed"
                         /\ Len(routers[r].closers) = 2
                         /\ \A i \in ClosersOf(r) : routers[r].closers[i] = 1

\* The attempts an endpoint is configured with, 0 or unset counting as 1.
ConfiguredAttempts(e) ==
    IF e.hasRetry /\ e.attempts > 0 THEN e.attempts ELSE 1

\* C4: the attempts dispatched for a request are at most the endpoint's configured
\* attempts (0 or unset counting as 1), and an attempt after the first is never
\* dispatched while the retry feature flag is disabled, so that at most one
\* attempt is dispatched with the flag off.
C4_AttemptsBounded ==
    /\ h.dispatched <= ConfiguredAttempts(h.ep)
    /\ ~h.offDispatch

\* A request of an endpoint configured with the largest number of attempts has
\* used all of them.
C4_Witness ==
    /\ h.pc = "done"
    /\ h.ep.attempts = MaxAttempts
    /\ h.dispatched = MaxAttempts

\* C5: when the handler has returned, the done callback of every attempt in which
\* the selector returned a node has been invoked exactly once.
C5_DoneExactlyOnce ==
    h.pc = "done" => \A a \in h.selected : Len(h.doneCalls[a]) = 1

\* The status code the claim gives an error.
ClaimedStatus(err) ==
    CASE err \in {"context canceled", "client disconnected"} -> 499
      [] err = "context deadline exceeded" -> 504
      [] OTHER -> 502

\* C9: a request that ends with an error gets an error response whose status code
\* is 499 for context.Canceled or a client disconnect, 504 for
\* context.DeadlineExceeded and 502 for any other error; for a GRPC endpoint the
\* HTTP status is 200, Content-Type is application/grpc and Grpc-Status is the
\* gRPC code of that status code (1 for 499, 4 for 504, 2 for 502).
C9_ErrorStatus ==
    /\ (h.pc = "done" /\ h.err # "nil") => h.out.from = "error"
    /\ h.out.from = "error" =>
          LET code == ClaimedStatus(h.err)
          IN  /\ h.out.counted = code
              /\ IF h.ep.protocol = "GRPC"
                     THEN /\ h.out.status = 200
                          /\ h.out.contentType = "application/grpc"
                          /\ h.out.grpcStatus = ToGRPCCode(code)
                          /\ h.out.grpcStatus =
                                 (CASE code = 499 -> 1 [] code = 504 -> 4 [] OTHER -> 2)
                 ELSE h.out.status = code

\* A GRPC request whose last attempt ran into the deadline got 200 with
\* Grpc-Status 4.
C9_Witness ==
    /\ h.pc = "done"
    /\ h.ep.protocol = "GRPC"
    /\ h.err = "context deadline exceeded"
    /\ h.dispatched >= 1
    /\ h.out.status = 200
    /\ h.out.grpcStatus = 4

\* The error response the claim gives a request whose context is done.
ContextDoneResponse ==
    /\ h.out.from = "error"
    /\ h.out.counted = IF h.ctx = "deadline" THEN 504 ELSE 499

\* C10: an iteration of the attempt loop that starts with the total-timeout
\* context done dispatches nothing and ends the loop; when it is the context
\* check that ends the loop (always so at the first iteration), the response is
\* the error response with status code 504 for an expired deadline and 499 for a
\* cancelled inbound context.
C10_ContextDoneStops ==
    /\ h.doneAtTop => h.pc \in {"after", "done"} /\ h.exit \in {"feature", "breaker", "ctx"}
    /\ (h.doneAtTop /\ h.dispatched = 0) => h.exit = "ctx"
    /\ (h.pc = "done" /\ h.exit = "ctx") => ContextDoneResponse

\* The deadline passed after a first attempt; the second iteration stopped the
\* loop with attempts left, and the response is 504.
C10_Witness ==
    /\ h.pc = "done"
    /\ h.exit = "ctx"
    /\ h.ctx = "deadline"
    /\ h.dispatched = 1
    /\ h.attempts > 1
    /\ h.out.counted = 504

\* C10 as stated: whenever an iteration of the loop started with the context
\* done, the response is 504 for an expired deadline and 499 for a cancelled one.
C10_AsStated ==
    (h.pc = "done" /\ h.doneAtTop) => ContextDoneResponse

\* C7: the lists the Callback of a subscriber is invoked with are lists the
\* watcher's Next has returned, in the order in which it returned them: no
\* subscriber is given an earlier list after a later one, a subscriber that is
\* added while an update is being delivered included.
C7_CallbacksInOrder ==
    \A s \in Subs :
        LET r == sub[s].received
        IN  /\ \A i \in 1..Len(r) : r[i] \in 1..taken[sub[s].key]
            /\ \A i \in 1..Len(r) : \A j \in 1..Len(r) : i < j => r[i] <= r[j]

\* A subscriber was added between setSelectedCache and doCallback of the second
\* list: it was given the second list from the cache and by the update loop,
\* and then the third.
C7_Witness ==
    \E s \in Subs :
        /\ sub[s].received = <<2, 2, 3>>
        /\ ws[sub[s].key].owner # s

\* The latest list the watcher of k has returned.
LatestList(k) ==
    emitted[k][taken[k]]

\* The latest list that is not empty among those the watcher of k has returned
\* (the empty list when there is none).
LatestNonEmpty(k) ==
    LET idx == {i \in 1..taken[k] : emitted[k][i] # {}}
    IN  IF idx = {} THEN {}
        ELSE emitted[k][CHOOSE i \in idx : \A j \in idx : j <= i]

\* The watcher of k has returned a list and every callback of the lists it has
\* returned has completed.
Settled(k) ==
    /\ ws[k].exists
    /\ ws[k].initialized
    /\ wlock = 0
    /\ ws[k].loop.pc \in {"next", "stopped"}
    /\ taken[k] > 0

\* A subscriber of k that is registered and not cancelled.
LiveSub(s, k) ==
    sub[s].registered /\ sub[s].key = k /\ ~sub[s].canceled

RetriesAdmitted ==
    h.exit \notin {"feature", "breaker"} /\ h.ctx = "live"

Answered503503200 ==
    /\ h.ep.attempts = 3
    /\ h.ep.conditions = {503}
    /\ Len(h.tries) = 3
    /\ h.tries[1] = Outcome("nil", 503)
    /\ h.tries[2] = Outcome("nil", 503)
    /\ h.tries[3] = Outcome("nil", 200)

\* C12: with three attempts and a retry condition on 503, a backend answering
\* 503, 503, 200 gives the response 200 after exactly three attempts; the
\* retry-state counter with success=true is incremented once and the breaker's
\* MarkSuccess is called once for the request.
C12_RetryThenSuccess ==
    Answered503503200 =>
        /\ h.dispatched = 3
        /\ h.retryState.success = 1
        /\ h.breaker.success = 1
        /\ h.pc = "done" => h.out.from = "backend" /\ h.out.status = 200

\* The request answered 503, 503, 200 has returned 200.
C12_Witness ==
    /\ Answered503503200
    /\ h.pc = "done"
    /\ h.out.status = 200
    /\ h.retryState = [success |-> 1, failed |-> 1]

\* The addresses already tried in the call of the filter.
Tried ==
    {filt.backends[i] : i \in 1..Len(filt.backends)}

NotTried(a) ==
    a \notin Tried

\* C13: the retry-exclusion filter returns the input nodes whose address is not
\* in the backends-tried list, in input order; when that leaves no node it
\* returns the full input, so that its result is not empty when its input is not.
C13_FilterFailsOpen ==
    filt.pc = "returned" =>
        /\ filt.result = IF SelectSeq(filt.nodes, NotTried) = <<>> THEN filt.nodes
                         ELSE SelectSeq(filt.nodes, NotTried)
        /\ filt.nodes # <<>> => filt.result # <<>>

\* Every node of a call had been tried, and the call returned them all.
C13_Witness ==
    /\ filt.pc = "returned"
    /\ Len(filt.nodes) = 2
    /\ \A i \in 1..2 : filt.nodes[i] \in Tried
    /\ filt.result = filt.nodes


\* The number that four bytes hold in big-endian order.
BigEndian(b) ==
    ((b[1] * 256 + b[2]) * 256 + b[3]) * 256 + b[4]

\* The received request is one the transcoder frames.
Transcodes ==
    tc.protocol = "GRPC" /\ ~HasPrefix(tc.contentType, AppGrpc)

\* C14: for a GRPC endpoint and a received Content-Type that does not start
\* with application/grpc, the body sent upstream on every attempt is the byte
\* 0, the length L of the received body in four big-endian bytes, and the
\* received body, with content length L + 5; no attempt sends a body framed
\* twice or not at all.
C14_FramedOncePerAttempt ==
    Transcodes =>
        \A i \in 1..Len(tc.sent) :
            LET o == tc.sent[i]
                L == Len(tc.body)
            IN  /\ Len(o.body) = L + 5
                /\ o.body[1] = 0
                /\ BigEndian(SubSeq(o.body, 2, 5)) = L
                /\ SubSeq(o.body, 6, L + 5) = tc.body
                /\ o.contentLength = L + 5

\* A request with a body of two bytes has been sent upstream twice, framed.
C14_Witness ==
    /\ Transcodes
    /\ tc.body = <<7, 255>>
    /\ Len(tc.sent) = 2
    /\ tc.sent[2].body = <<0, 0, 0, 0, 2, 7, 255>>

\* C15: for a transcoded request received with Content-Type
\* application/<subtype>, the Content-Type sent upstream is
\* application/grpc+<subtype>, the subtype being the text after application/.
C15_SubtypeEchoed ==
    Transcodes /\ HasPrefix(tc.contentType, AppSlash) =>
        \A i \in 1..Len(tc.sent) :
            tc.sent[i].contentType
                = AppGrpc \o <<"+">>
                    \o SubSeq(tc.contentType, Len(AppSlash) + 1, Len(tc.contentType))

\* C16: for a response to a transcoded request, the caller gets HTTP 200 with
\* the Status of the grpc-status code and the grpc-message and the inbound
\* Content-Type when grpc-status is a number other than zero, and the upstream
\* body without its first five bytes when grpc-status is "0"; the transcoder
\* never returns an error and never panics.
C16_StatusOrBody ==
    tc.pc = "returned" /\ tc.upstream # <<>> /\ tc.sent[Len(tc.sent)].transcoded =>
        LET r == tc.upstream[1]
            out == tc.returned
        IN  /\ out.kind \in {"status", "body"}
            /\ ParseInt(r.grpcStatus).ok /\ ParseInt(r.grpcStatus).n # 0 =>
                   /\ out.kind = "status"
                   /\ out.status = 200
                   /\ out.contentType = tc.contentType
                   /\ r.details = "" =>
                          /\ out.code = ParseInt(r.grpcStatus).n
                          /\ out.message = r.grpcMessage
            /\ r.grpcStatus = "0" =>
                   /\ out.kind = "body"
                   /\ out.body = SubSeq(r.data, 6, Len(r.data))


RECURSIVE Elements(_, _, _, _)
\* The names a path resolves to: the text between slashes, without the empty
\* and "." elements, a ".." element removing the name before it.
Elements(p, i, cur, names) ==
    LET done == IF cur = <<>> \/ cur = <<".">> THEN names
                ELSE IF cur = <<".", ".">>
                    THEN (IF names = <<>> THEN names ELSE SubSeq(names, 1, Len(names) - 1))
                ELSE Append(names, cur)
    IN  IF i > Len(p) THEN done
        ELSE IF p[i] = "/" THEN Elements(p, i + 1, <<>>, done)
        ELSE Elements(p, i + 1, Append(cur, p[i]), names)

\* The path ends with a slash.
TrailingSlash(p) ==
    p # <<>> /\ p[Len(p)] = "/"

\* C17: cleanPath applied to its own result returns that result; the result
\* begins with a slash; the result is a non-root path that ends with a slash
\* exactly when the input ends with a slash and is not a path of the root.
C17_CleanPathIdempotent ==
    pth.fn = "cleanPath" /\ pth.pc \in {"returned", "again"} =>
        /\ pth.out # <<>>
        /\ pth.out[1] = "/"
        /\ (pth.out # <<"/">> /\ TrailingSlash(pth.out))
               <=> (TrailingSlash(pth.p) /\ Elements(pth.p, 1, <<>>, <<>>) # <<>>)
        /\ pth.pc = "again" => pth.again = pth.out

\* "a//a/" is cleaned to "/a/a/", and that again to itself.
C17_Witness ==
    /\ pth.fn = "cleanPath"
    /\ pth.pc = "again"
    /\ pth.p = <<"a", "/", "/", "a", "/">>
    /\ pth.out = <<"/", "a", "/", "a", "/">>
    /\ pth.again = pth.out

\* C18: stripPrefix returns a non-empty path that begins with a slash, for
\* every path and every prefix.
C18_StripPrefixRooted ==
    pth.fn = "stripPrefix" /\ pth.pc = "returned" =>
        /\ pth.out # <<>>
        /\ pth.out[1] = "/"

\* Removing the prefix "/a" of "/aa/." leaves "a/.", which has no leading slash:
\* the result is "/a".
C18_Witness ==
    /\ pth.fn = "stripPrefix"
    /\ pth.pc = "returned"
    /\ pth.p = <<"/", "a", "a", "/", ".">>
    /\ pth.prefix = <<"/", "a">>
    /\ pth.out = <<"/", "a">>


\* The names of the middlewares of a list that are registered and whose
\* factory gave a middleware, in listed order.
Registered(ms) ==
    LET IsRegistered(c) == ~NotFound(c.name) /\ ~FactoryFails(c.name)
        cs == SelectSeq(ms, IsRegistered)
    IN  [i \in 1..Len(cs) |-> cs[i].name]

\* The names of a list of middlewares.
NamesOf(ms) ==
    [i \in 1..Len(ms) |-> ms[i].name]

\* The names the request, or the response, went through, in order of time.
Traversed(direction) ==
    LET Is(e) == e[1] = direction
        es == SelectSeq(mw.events, Is)
    IN  [i \in 1..Len(es) |-> es[i][2]]

Reverse(seq) ==
    [i \in 1..Len(seq) |-> seq[Len(seq) + 1 - i]]

\* C19, amended: the request goes through the registered global middlewares in
\* listed order, then through the endpoint's registered middlewares in listed
\* order, then to the client; the response goes through them in the reverse
\* order.
C19_GlobalOutermost ==
    mw.pc = "done" =>
        /\ Traversed("request")
               = Registered(mw.global) \o Registered(mw.endpoint) \o <<"client">>
        /\ Traversed("response") = Reverse(Traversed("request"))

\* A request has gone through g1, g2, e1, e2 and the client, and the response back.
C19_Witness ==
    /\ mw.pc = "done"
    /\ NamesOf(mw.endpoint) = <<"e1", "e2">>
    /\ NamesOf(mw.global) = <<"g1", "g2">>
    /\ Traversed("request") = <<"g1", "g2", "e1", "e2", "client">>
    /\ Traversed("response") = <<"client", "e2", "e1", "g2", "g1">>

\* C19 as stated: the request goes through the endpoint's middlewares first
\* and through the global ones after them, the response in the reverse order.
C19_AsStated ==
    mw.pc = "done" =>
        /\ Traversed("request")
               = Registered(mw.endpoint) \o Registered(mw.global) \o <<"client">>
        /\ Traversed("response") = Reverse(Traversed("request"))


LastTry ==
    h.tries[Len(h.tries)]

\* C21, amended: when the breaker refuses the retry at index i > 0, no further
\* attempt is dispatched and the request ends with the outcome of attempt
\* i - 1: the error response of its transport error, or, when that attempt was
\* answered and discarded by a retry condition, its upstream response.
C21_BreakerStops ==
    h.exit = "breaker" =>
        /\ h.pc \in {"after", "done"}
        /\ h.i > 0
        /\ h.dispatched = h.i
        /\ Len(h.tries) = h.i
        /\ h.pc = "done" =>
               IF LastTry.err # "nil" THEN h.out = writeError(LastTry.err, h.ep.protocol)
               ELSE h.out.from = "backend" /\ h.out.status = LastTry.status

\* The second attempt of three was refused a connection and the breaker refused
\* the third: the response is 502.
C21_Witness ==
    /\ h.pc = "done"
    /\ h.exit = "breaker"
    /\ h.attempts = 3
    /\ h.i = 2
    /\ LastTry.err = "connection refused"
    /\ h.out.from = "error"
    /\ h.out.counted = 502

\* C21 as stated: a request whose retry the breaker refused ends with the error
\* response of the last transport error, never with an upstream response.
C21_AsStated ==
    (h.pc = "done" /\ h.exit = "breaker") =>
        /\ LastTry.err # "nil"
        /\ h.out = writeError(LastTry.err, h.ep.protocol)

\* The step is a call of markFailed with the error err: an attempt that failed
\* with it, or the context check that found it.
MarkFailedWith(err) ==
    \/ Len(h'.tries) = Len(h.tries) + 1 /\ h'.tries[Len(h'.tries)].err = err
    \/ h.pc = "loop" /\ h'.exit = "ctx" /\ h'.err = err

\* C22: no call of markFailed with the error context.Canceled reaches the
\* breaker's MarkFailed.
C22_CanceledNotMarked ==
    [][MarkFailedWith("context canceled") => h'.breaker.failed = h.breaker.failed]_vars

\* C23: no step of the handler at attempt index 0 changes the breaker's counts
\* or the retry-state counter.
C23_FirstAttemptNotCounted ==
    [][(h.pc # "idle" /\ h.i = 0) =>
           (h'.breaker = h.breaker /\ h'.retryState = h.retryState)]_vars

\* The first attempt failed and nothing was counted.
C23_Witness ==
    /\ h.i = 1
    /\ h.tries = <<Outcome("connection refused", 0)>>
    /\ h.breaker = [success |-> 0, failed |-> 0]
    /\ h.retryState = [success |-> 0, failed |-> 0]

\* The last attempt ended with a transport error and configured attempts remain.
AfterTransportError ==
    /\ h.tries # <<>>
    /\ LastTry.err # "nil"
    /\ Len(h.tries) < h.attempts

\* C24, amended: an attempt that ends with a transport error while attempts
\* remain leaves the handler at the top of the loop with the next index; from
\* there the next attempt is dispatched unless the retry feature is off, the
\* breaker refuses or the context is done, and it can be dispatched whenever
\* the feature is on and the context is live.
C24_TransportErrorContinues ==
    /\ [](AfterTransportError /\ h.pc \in {"loop", "after"} =>
              \/ h.pc = "loop" /\ h.i = Len(h.tries)
              \/ h.exit \in {"feature", "breaker", "ctx"})
    /\ [](AfterTransportError /\ h.pc = "loop" /\ retryFeature /\ h.ctx = "live" =>
              ENABLED Dispatch)
    /\ [][AfterTransportError /\ h.pc = "loop" /\ h'.pc # "loop" =>
              \/ h'.pc = "inflight"
              \/ h'.exit \in {"feature", "breaker", "ctx"}]_vars

\* The first attempt was refused a connection and the second is in flight.
C24_Witness ==
    /\ h.pc = "inflight"
    /\ h.i = 1
    /\ h.tries = <<Outcome("connection refused", 0)>>

\* C24 as stated: after a transport error with attempts remaining, the loop is
\* left only by the dispatch of the next attempt, unless the context is done.
C24_AsStated ==
    [][AfterTransportError /\ h.pc = "loop" /\ h'.pc # "loop" =>
           \/ h'.pc = "inflight"
           \/ h.ctx # "live"]_vars


\* C25: when the handler has returned, the body of every upstream response
\* that an attempt obtained is closed.
C25_BodiesClosed ==
    h.pc = "done" => \A a \in AttemptIdx : h.bodies[a] # "open"


\* C26: the request every attempt starts from is the received one (its
\* headers, its URL, the whole of its body), and every attempt sends upstream
\* what the first attempt sent, whatever the middlewares of earlier attempts
\* consumed or rewrote.
C26_AttemptsStartFromInbound ==
    tc.pc # "none" =>
        /\ tc.inbound = [contentType |-> tc.contentType, body |-> tc.body,
                         contentLength |-> Len(tc.body), transcoded |-> FALSE,
                         path |-> tc.path]
        /\ \A i \in 1..Len(tc.sent) : tc.sent[i] = tc.sent[1]

\* Three attempts of a transcoded request: each had its path rewritten from
\* /a/a to /a and its body framed, and the inbound request is as received.
C26_Witness ==
    /\ Transcodes
    /\ Len(tc.sent) = 3
    /\ tc.body = <<255, 7>>
    /\ tc.sent[3].path = <<"/", "a">>
    /\ tc.sent[3].body = <<0, 0, 0, 0, 2, 255, 7>>
    /\ tc.inbound.path = <<"/", "a", "/", "a">>
    /\ tc.inbound.body = <<255, 7>>


\* The step is the update loop of k taking a list from watcher.Next().
LoopTakes(k) ==
    /\ LoopSpawned(k)
    /\ ws[k].loop.pc = "next"
    /\ taken'[k] = taken[k] + 1

\* The step is setSelectedCache of the update loop of k.
LoopCaches(k) ==
    ws[k].loop.pc = "cache" /\ ws'[k].loop.pc = "callback"

\* The step is doCallback of the update loop of k.
LoopCallsBack(k) ==
    ws[k].loop.pc = "callback" /\ ws'[k].loop.pc = "next"

\* C27, amended: a list returned by Next in the update loop that is not empty
\* goes to setSelectedCache, which makes it the cached list of the key, and
\* then to doCallback, which invokes the Callback of every subscriber
\* registered for the key with it; both can run as soon as the lock is free.
\* An empty list is dropped: the cache and the subscribers stay as they are.
C27_NonEmptyListsFanOut ==
    /\ [][\A k \in Keys :
              /\ (LoopTakes(k) /\ NextList(k) # {}) =>
                     ws'[k].loop = [pc |-> "cache", services |-> NextList(k),
                                    seq |-> taken[k] + 1]
              /\ (LoopTakes(k) /\ NextList(k) = {}) => (ws' = ws /\ sub' = sub)
              /\ LoopCaches(k) =>
                     /\ ws'[k].selectedInstances = ws[k].loop.services
                     /\ ws'[k].loop.services = ws[k].loop.services
              /\ LoopCallsBack(k) =>
                     \A s \in Subs :
                         (sub[s].registered /\ sub[s].key = k) =>
                             sub'[s].received = Append(sub[s].received, ws[k].loop.seq)]_vars
    /\ [](\A k \in Keys :
              /\ (ws[k].loop.pc = "cache" /\ LockFree) => ENABLED LoopCache(k)
              /\ (ws[k].loop.pc = "callback" /\ LockFree) => ENABLED LoopCallback(k))

\* The update loop took an empty second list and a third list: a subscriber
\* that had been cancelled was called back with the third, after the first.
C27_Witness ==
    \E s \in Subs :
        /\ sub[s].canceled
        /\ sub[s].received = <<1, 3>>
        /\ emitted[sub[s].key][2] = {}
        /\ ws[sub[s].key].cacheSeq = 3

\* C27 as stated: every list returned by Next in the update loop goes to
\* setSelectedCache and doCallback, an empty list included.
C27_AsStated ==
    [][\A k \in Keys :
           LoopTakes(k) =>
               ws'[k].loop = [pc |-> "cache", services |-> NextList(k),
                              seq |-> taken[k] + 1]]_vars


\* The step is the return of the Add of subscriber s.
AddReturns(s) ==
    sub[s].pc # "live" /\ sub'[s].pc = "live"

\* C30, amended: an Add for a key that has no watcher opens one watcher when
\* discovery.Watch succeeds and none when it fails, and returns false either
\* way; the watcher it opened gets one update loop, and the initial list is
\* cached and delivered before Add returns when the initial Next succeeds,
\* nothing is delivered when it fails. An Add for a key that has a watcher
\* leaves the watcher table as it is, delivers the cached list when it is not
\* empty, and returns true. A watcher, once opened, is never replaced, and
\* its update loop, once started, stays the only one. Every Add registers its
\* subscriber.
C30_AddOpensOnce ==
    [][/\ \A s \in Subs :
              AddReturns(s) =>
                  LET k == sub'[s].key
                  IN  /\ sub'[s].registered
                      /\ IF sub[s].pc = "new" /\ ws[k].exists
                             THEN /\ ws' = ws /\ taken' = taken
                                  /\ sub'[s].watcherExisted
                                  /\ sub'[s].received =
                                         IF ws[k].selectedInstances # {}
                                             THEN <<ws[k].cacheSeq>> ELSE <<>>
                         ELSE IF sub[s].pc = "new"
                             THEN /\ ws' = ws /\ taken' = taken
                                  /\ ~sub'[s].watcherExisted
                                  /\ sub'[s].received = <<>>
                         ELSE /\ ws[k].owner = s /\ ~ws[k].spawned
                              /\ ws'[k].exists /\ ws'[k].spawned /\ ws'[k].initialized
                              /\ ~sub'[s].watcherExisted
                              /\ \/ /\ taken' = taken
                                    /\ sub'[s].received = <<>>
                                    /\ ws'[k].selectedInstances = ws[k].selectedInstances
                                 \/ /\ taken'[k] = taken[k] + 1
                                    /\ sub'[s].received = <<taken'[k]>>
                                    /\ ws'[k].selectedInstances = NextList(k)
       /\ \A k \in Keys :
              /\ (~ws[k].exists /\ ws'[k].exists) =>
                     \E s \in Subs : /\ sub[s].pc = "new" /\ sub'[s].pc = "opening"
                                     /\ sub'[s].key = k /\ ws'[k].owner = s
              /\ ws[k].exists =>
                     /\ ws'[k].exists /\ ws'[k].owner = ws[k].owner
                     /\ ws[k].spawned => ws'[k].spawned
              /\ (~ws[k].spawned /\ ws'[k].spawned) =>
                     (sub[ws[k].owner].pc = "opening" /\ AddReturns(ws[k].owner))]_vars

\* A first Add opened the watcher and got the initial list, and a later Add
\* for the same key returned true with the cached list.
C30_Witness ==
    \E s, t \in Subs :
        /\ s # t
        /\ sub[s].pc = "live" /\ sub[t].pc = "live"
        /\ sub[s].key = sub[t].key
        /\ ws[sub[s].key].owner = s
        /\ ~sub[s].watcherExisted /\ Len(sub[s].received) > 0 /\ Head(sub[s].received) = 1
        /\ sub[t].watcherExisted /\ Len(sub[t].received) > 0

\* C30 as stated: an Add for a key without a watcher opens one, delivers the
\* initial list before it returns and returns false; a later Add delivers the
\* cached list and returns true.
C30_AsStated ==
    [][\A s \in Subs :
           AddReturns(s) =>
               LET k == sub'[s].key
               IN  IF sub[s].pc = "new" /\ ws[k].exists
                       THEN /\ ws' = ws
                            /\ sub'[s].watcherExisted
                            /\ ws[k].selectedInstances # {} =>
                                   sub'[s].received = <<ws[k].cacheSeq>>
                   ELSE /\ ws'[k].exists /\ ws'[k].owner = s
                        /\ ~sub'[s].watcherExisted
                        /\ Len(sub'[s].received) = 1]_vars


\* C28: when a pass of the cleanup task is over, no applier whose Canceled()
\* was true when the pass started is still registered under any key.
C28_PassRemovesCancelled ==
    rp.pc = "passed" =>
        \A x \in rp.atStart : rp.appliers[x[1]][x[2]] # "canceled"

\* C29: every access to s.appliers and to its inner maps is made with s.lock
\* held, and no access runs concurrently with a write.
C29_AccessUnderLock ==
    /\ \A a \in rp.access : a.lock # "none"
    /\ rp.pc # "fatal"


\* The middlewares buildEndpoint gives to buildMiddleware, in the order in
\* which they are created: the endpoint's from the last to the first, then
\* the global ones from the last to the first.
CreationOrder ==
    Reverse(mw.endpoint) \o Reverse(mw.global)

\* The entry is registered, and its factory fails.
CreateFails(c) ==
    ~NotFound(c.name) /\ FactoryFails(c.name)

\* The positions in the creation order that are reached: those up to the
\* first required middleware whose factory fails.
Created ==
    {i \in 1..Len(CreationOrder) :
        \A j \in 1..(i - 1) : ~(CreateFails(CreationOrder[j]) /\ CreationOrder[j].required)}

\* The number of increments of the failure counter with the labels.
FailedCount(name, required) ==
    Cardinality({i \in 1..Len(mw.failed) : mw.failed[i] = <<name, required>>})

\* C31: when the factory of a required middleware fails, the build of the
\* endpoint fails with that error and no tripper is built; when the
\* factories that fail are all of optional middlewares, the build succeeds
\* and the tripper goes through the other registered middlewares only (the
\* identity stands for the failed ones). In both cases the failure counter
\* of a name is incremented once for each optional entry of that name that
\* was reached and whose factory failed.
C31_FactoryFailure ==
    mw.pc \notin {"none", "config"} =>
        /\ (\E i \in 1..Len(CreationOrder) :
                CreateFails(CreationOrder[i]) /\ CreationOrder[i].required)
               <=> (mw.pc = "failed" /\ mw.err = "create failed" /\ mw.tripper = <<>>)
        /\ mw.pc # "failed" =>
               mw.tripper = Registered(mw.global) \o Registered(mw.endpoint) \o <<"client">>
        /\ \A name \in EndpointNames \cup GlobalNames :
               FailedCount(name, FALSE)
                   = Cardinality({i \in Created :
                                     /\ CreationOrder[i].name = name
                                     /\ CreateFails(CreationOrder[i])
                                     /\ ~CreationOrder[i].required})

\* The factory of an optional middleware of the endpoint failed, the identity
\* took its place and the build went on; it then failed on a required global
\* middleware whose factory failed.
C31_Witness ==
    /\ mw.pc = "failed"
    /\ \E i \in 1..Len(mw.endpoint) : CreateFails(mw.endpoint[i]) /\ ~mw.endpoint[i].required
    /\ \A i \in 1..Len(mw.endpoint) : CreateFails(mw.endpoint[i]) => ~mw.endpoint[i].required
    /\ mw.failed = <<<<"failing", FALSE>>, <<"failing", TRUE>>>>

\* C38: an endpoint that was built has every middleware its configuration
\* marks as required in its tripper.
C38_RequiredInPipeline ==
    mw.pc \in {"built", "request", "response", "done"} =>
        \A i \in 1..Len(CreationOrder) :
            CreationOrder[i].required =>
                \E j \in 1..Len(mw.tripper) : mw.tripper[j] = CreationOrder[i].name


\* The step is a call of nodeApplier.Callback.
CallbackStep ==
    na'.calls # na.calls

\* The endpoints of an instance that have the scheme and are not marked
\* isSecure=true, by position.
PlainEndpoints(endpoints, scheme) ==
    {j \in 1..Len(endpoints) :
        /\ ~endpoints[j].parseError
        /\ endpoints[j].scheme = scheme
        /\ ~endpoints[j].isSecure}

Least(S) ==
    CHOOSE j \in S : \A k \in S : j <= k

\* The instance has a plain endpoint of the scheme, and no endpoint before
\* the first of them fails to parse.
Contributes(endpoints, scheme) ==
    /\ PlainEndpoints(endpoints, scheme) # {}
    /\ \A j \in 1..(Least(PlainEndpoints(endpoints, scheme)) - 1) : ~endpoints[j].parseError

\* The nodes of a list: one for each instance that contributes, in the order
\* of the list, at the host of its first plain endpoint of the scheme.
NodesFor(services, scheme) ==
    LET Is(i) == Contributes(services[i], scheme)
        idx == SelectSeq([i \in 1..Len(services) |-> i], Is)
    IN  [k \in 1..Len(idx) |->
            newNode(<<services[idx[k]][Least(PlainEndpoints(services[idx[k]], scheme))].host>>,
                    FALSE)]

\* C32, amended: a Callback on an applier that is not cancelled, with a list
\* that is not empty, replaces the selector's node set in one Apply by one
\* node for each instance that has an endpoint whose scheme is the endpoint
\* protocol in lower case and that is not marked isSecure=true, at the host
\* of the first such endpoint; an instance without such an endpoint, or with
\* an endpoint that does not parse before it, is skipped. A Callback on a
\* cancelled applier or with an empty list leaves the node set as it is.
C32_CallbackNodes ==
    [][CallbackStep =>
           IF na.canceled \/ na'.last = <<>>
               THEN na'.picker = na.picker
           ELSE na'.picker = NodesFor(na'.last, SchemeOf(na.protocol))]_vars

\* A Callback on an HTTP endpoint got an instance with a secure and a plain
\* http endpoint and an instance with a secure http endpoint only: the
\* selector has the node of the first at its plain endpoint.
C32_Witness ==
    /\ na.calls = 1
    /\ na.protocol = "HTTP"
    /\ na.last = <<<<Uri("http", "c:443", TRUE), Uri("http", "c:80", FALSE)>>,
                   <<Uri("http", "d:443", TRUE)>>>>
    /\ na.picker = <<newNode(<<"c:80">>, FALSE)>>

\* The endpoints of an instance that have the scheme.
SchemeEndpoints(endpoints, scheme) ==
    {j \in 1..Len(endpoints) : ~endpoints[j].parseError /\ endpoints[j].scheme = scheme}

NodesAsStated(services, scheme) ==
    LET Is(i) == SchemeEndpoints(services[i], scheme) # {}
        idx == SelectSeq([i \in 1..Len(services) |-> i], Is)
    IN  [k \in 1..Len(idx) |->
            newNode(<<services[idx[k]][Least(SchemeEndpoints(services[idx[k]], scheme))].host>>,
                    FALSE)]

\* C32 as stated: each instance gives a node at the host of its first
\* endpoint of the scheme, and only instances without an endpoint of the
\* scheme are skipped.
C32_AsStated ==
    [][(CallbackStep /\ ~na.canceled /\ na'.last # <<>>) =>
           na'.picker = NodesAsStated(na'.last, SchemeOf(na.protocol))]_vars

\* The host:port a backend target names.
HostPort(target) ==
    target[Len(target)]

\* C33: an attempt that selects the node of a direct backend has the
\* backend's host:port as the host of its outbound URL.
C33_DirectAddress ==
    (na.pc = "requested" /\ na.picker[na.selected].direct) =>
        \E i \in 1..Len(na.backends) :
            /\ na.picker[na.selected].address = na.backends[i]
            /\ na.urlHost = <<HostPort(na.backends[i])>>

\* The node of a direct backend is in the selector.
HasDirectNode(target) ==
    \E n \in 1..Len(na.picker) : na.picker[n].direct /\ na.picker[n].address = target

\* C37: after apply the selector has a node for every direct backend of the
\* endpoint, whatever discovery reported since; and the Apply of a direct
\* backend keeps the nodes that discovery gave before it.
C37_DirectNodesKept ==
    /\ [](na.pc \in {"live", "requested"} =>
              \A i \in 1..Len(na.backends) :
                  parseTarget(na.backends[i]).Scheme = "direct" =>
                      HasDirectNode(na.backends[i]))
    /\ [][\A n \in 1..Len(na.picker) :
              (~na.picker[n].direct /\ ~CallbackStep) =>
                  \E k \in 1..Len(na'.picker) : na'.picker[k] = na.picker[n]]_vars


\* The step is a request that held the superseded router from
\* p.router.Load() entering muxRouter.ServeHTTP, which dispatches it to the
\* matching endpoint handler.
EntersSuperseded ==
    sc'.loaded < sc.loaded

\* C34: no request enters a superseded router whose wait ended before the
\* deadline (drained) and whose closers SyncClose has begun to invoke.
C34_NoDispatchAfterClose ==
    [][EntersSuperseded => ~(sc.waited = "drained" /\ sc.invoked # <<>>)]_vars


\* C35: the update loop of a key goes on after the applier whose Add opened
\* the watcher has been cancelled.
C35_LoopSurvivesOwner ==
    \A k \in Keys :
        (ws[k].exists /\ ws[k].owner \in Subs /\ sub[ws[k].owner].canceled) =>
            ws[k].loop.pc # "stopped"

\* C36: whatever the interleaving of the Update calls, the installed router is
\* the one router with the status installed and SyncClose was never called
\* on it; SyncClose was called exactly once on every router that was
\* installed and then superseded, and never on a router that was not
\* installed; a router whose Update succeeded is installed or has had its
\* SyncClose called.
C36_SyncCloseOncePerSuperseded ==
    \A r \in RouterIds :
        /\ routers[r].status = "installed" <=> r = router
        /\ routers[r].status \in {"superseded", "closing", "closed"} =>
               /\ routers[r].syncClose = 1
               /\ r = 0 \/ routers[r].installSeq > 0
        /\ routers[r].status \in {"unused", "building", "failed", "installed"} =>
               routers[r].syncClose = 0
        /\ (r # 0 /\ routers[r].installSeq > 0) =>
               routers[r].status \in {"installed", "superseded", "closing", "closed"}

\* Two Update calls ran together and the one that started later swapped
\* first: the initial router and the router of the later call have had one
\* SyncClose each, and the router of the earlier call is installed.
C36_Witness ==
    /\ router = 1
    /\ routers[2].installSeq = 1 /\ routers[1].installSeq = 2
    /\ routers[0].syncClose = 1 /\ routers[2].syncClose = 1
    /\ routers[1].syncClose = 0


\* C39: a request that left the handler incremented requests_code_total
\* exactly once: with 499, 504 or 502 by the kind of the error when the body
\* read or the attempts ended with an error, whatever the protocol, and with
\* the status of the upstream response otherwise; a request still in the
\* handler has incremented nothing.
C39_CountedOnce ==
    /\ h.pc # "done" => h.requestsTotal = <<>>
    /\ h.pc = "done" =>
           /\ Len(h.requestsTotal) = 1
           /\ h.requestsTotal[1] =
                  IF h.err \in {"context canceled", "client disconnected"} THEN 499
                  ELSE IF h.err = "context deadline exceeded" THEN 504
                  ELSE IF h.err # "nil" THEN 502
                  ELSE h.resp[1]

\* A gRPC request whose attempts ended on the deadline: 200 is written,
\* 504 is counted.
C39_Witness ==
    /\ h.pc = "done"
    /\ h.ep.protocol = "GRPC"
    /\ h.tries # <<>>
    /\ h.err = "context deadline exceeded"
    /\ h.out.status = 200
    /\ h.requestsTotal = <<504>>

\* C40: when the attempt loop has ended and err is nil, resp is the response
\* of an attempt, so the headers and the status the handler writes are read
\* from a response.
C40_ResponseAfterLoop ==
    (LoopEnded /\ h.err = "nil") =>
        /\ h.resp # <<>>
        /\ h.resp[2] \in 0..(h.attempts - 1)
        /\ h.tries[h.resp[2] + 1] = Outcome("nil", h.resp[1])

\* The breaker refused the second attempt after a first response that matched
\* a retry condition: err is nil and resp is that first response.
C40_Witness ==
    /\ h.pc = "after"
    /\ h.exit = "breaker"
    /\ h.err = "nil"
    /\ h.resp = <<503, 0>>

====
